---- MODULE Spec2Model ----
(***************************************************************************)
(* Model of the coordination layer of Hackathon-Symbiotic-Agent:           *)
(*   - UserCommunicationHub (functions/src/core/userCommunicationHub.ts):  *)
(*     dual-worker ingestion, fallback queue, drain loop;                  *)
(*   - UserMessageProcessor (functions/src/agents/communication/           *)
(*     userMessageProcessor.ts): the worker and its busy flag;             *)
(*   - AgentManager (functions/src/core/agentManager.ts): the registry.    *)
(* Strings whose characters matter (message contents, keywords) are        *)
(* sequences of one-character strings.                                     *)
(***************************************************************************)
EXTENDS Integers, Sequences, FiniteSets, TLC

\* ------------------------------------------------------------------ bounds

\* Number of user messages handed to handleIncomingMessage in a run.
NumMsgs == 3
\* Largest processingQueue size drawn as an input of worker selection.
MaxQueueSize == 6
\* Number of callers of AgentManager.initialize().
NumCallers == 2
\* Number of calls of addUser, removeUser and shutdown made on an initialized
\* AgentManager.
NumLifeCalls == 2

\* Number of enqueue calls made on a PriorityQueue in a run.
MaxEnqueues == 4

\* Number of handlers registered with the MessageRouter in a run.
MaxHandlers == 3

\* isAvailable(): "this.processingQueue.size < 5"
MAX_PENDING == 5

Msgs == 1..NumMsgs
Workers == {1, 2}
Callers == 1..NumCallers
LifeCalls == 1..NumLifeCalls
\* Ids of the documents the 'users' collection may hold.
Users == {"u1", "u2"}

\* ----------------------------------------------------------------- strings

UpperChars == <<"A","B","C","D","E","F","G","H","I","J","K","L","M",
                "N","O","P","Q","R","S","T","U","V","W","X","Y","Z">>
LowerChars == <<"a","b","c","d","e","f","g","h","i","j","k","l","m",
                "n","o","p","q","r","s","t","u","v","w","x","y","z">>

\* String.prototype.toLowerCase, one character.
toLowerChar(c) ==
    IF \E i \in 1..26 : UpperChars[i] = c
    THEN LowerChars[CHOOSE i \in 1..26 : UpperChars[i] = c]
    ELSE c

\* String.prototype.toLowerCase.
toLowerCase(s) == [i \in 1..Len(s) |-> toLowerChar(s[i])]

\* String.prototype.includes: k occurs in s as a contiguous substring.
includes(s, k) ==
    \E i \in 0..(Len(s) - Len(k)) : \A j \in 1..Len(k) : s[i + j] = k[j]

\* const urgentKeywords = ['blocked','critical','urgent','help','error','broken']
urgentKeywords ==
    << <<"b","l","o","c","k","e","d">>,
       <<"c","r","i","t","i","c","a","l">>,
       <<"u","r","g","e","n","t">>,
       <<"h","e","l","p">>,
       <<"e","r","r","o","r">>,
       <<"b","r","o","k","e","n">> >>

\* A variant of calculateMessagePriority that forgets toLowerCase().
calculateMessagePriorityCaseSensitive(c, status) ==
    IF \E n \in DOMAIN urgentKeywords : includes(c, urgentKeywords[n])
    THEN 1
    ELSE IF status = "blocked" THEN 2 ELSE 3

\* A variant of calculateMessagePriority that tests the status first.
calculateMessagePriorityStatusFirst(c, status) ==
    IF status = "blocked" THEN 2
    ELSE IF \E n \in DOMAIN urgentKeywords :
                includes(toLowerCase(c), urgentKeywords[n])
         THEN 1 ELSE 3

\* UserCommunicationHub.calculateMessagePriority(message), of the message's
\* content and context.userStatus.
calculateMessagePriority(c, status) ==
    LET hasUrgentKeyword ==
            \E n \in DOMAIN urgentKeywords :
                includes(toLowerCase(c), urgentKeywords[n])
    IN  IF hasUrgentKeyword THEN 1
        ELSE IF status = "blocked" THEN 2
        ELSE 3

\* ---------------------------------------------------------- sample inputs

\* Message contents: Prefixes \o Words \o Suffixes, and the spec's example.
SampleWords ==
    { <<"b","l","o","c","k","e","d">>, <<"c","r","i","t","i","c","a","l">>,
      <<"u","r","g","e","n","t">>, <<"h","e","l","p">>,
      <<"e","r","r","o","r">>, <<"b","r","o","k","e","n">>,
      <<"B","L","O","C","K","E","D">>, <<"C","r","i","t","i","c","a","l">>,
      <<"U","R","G","E","N","T">>, <<"H","E","L","P">>,
      <<"E","r","r","O","r">>, <<"b","R","o","K","e","N">>,
      <<"h","e","l">>, <<"e","r","o","r">>, <<"b","l","o","c","k">>,
      <<"h","e"," ","l","p">>, <<"o","k">>, << >> }
SamplePrefixes == { << >>, <<"u","n">>, <<"X"," ">> }
SampleSuffixes == { << >>, <<"f","u","l">>, <<"!">> }
SpecExample ==
    <<"t","h","e"," ","b","u","i","l","d"," ","i","s"," ",
      "b","r","o","k","e","n",","," ","p","l","e","a","s","e"," ",
      "h","e","l","p">>
SampleContents ==
    { p \o w \o s : p \in SamplePrefixes, w \in SampleWords, s \in SampleSuffixes }
        \cup {SpecExample}
\* getUserStatus: user.data()?.status || 'active'
SampleStatuses == {"active", "blocked", "Blocked", "inactive"}

\* Contents and statuses of the messages the hub receives in the hub model.
HubContents == { <<"H","E","L","P">>, <<"o","k">> }
HubStatuses == {"active", "blocked"}

\* ------------------------------------------------------------------- state

VARIABLES
    \* --- UserMessageProcessor (one per worker)
    isProcessing,       \* [Workers -> BOOLEAN]: the busy flag
    processingQueue,    \* [Workers -> Nat]: processingQueue.size
    \* --- UserCommunicationHub
    pc,                 \* [Msgs -> stage of the message's handling]
    content,            \* [Msgs -> message content]
    userStatus,         \* [Msgs -> context.userStatus]
    viaQueue,           \* [Msgs -> BOOLEAN]: dequeued by the drain loop
    proc,               \* [Msgs -> 0..2]: worker the message was submitted to
    messageQueue,       \* PriorityQueue entries [item, priority, sequence]
    sequence,           \* PriorityQueue: next sequence number
    handed,             \* [Msgs -> Nat]: calls of handleProcessedMessage
    submitted,          \* [Msgs -> Nat]: calls of processUserMessage
    servedAhead,        \* [Msgs -> BOOLEAN]: in flight, submitted past a waiting message
    errorRecords,       \* [Msgs -> Nat]: processing_errors records stored
    errorResponses,     \* [Msgs -> Nat]: 'error' events emitted to the user
    \* --- worker selection applied to drawn inputs
    selected,           \* 0, or the worker getAvailableProcessor returned
    \* --- calculateMessagePriority applied to drawn inputs
    prioContent, prioStatus, prioResult,
    \* --- AgentManager
    initialized,        \* this.initialized
    agents,             \* ids registered in this.agents
    coreInitialized,    \* core services whose initialize() has completed
    constructed,        \* [static agent id -> times constructed]
    monitorStarts,      \* calls of healthMonitor.startMonitoring
    trackingStarts,     \* calls of tokenManager.startTracking
    dbUsers,            \* ids in the 'users' collection
    mgrPc,              \* [Callers -> stage of the caller's initialize()]
    \* --- AgentManager after initialization: addUser, removeUser, shutdown
    monitoring,         \* the health monitor and token tracker are running
    hooks,              \* ids of the agents that have a cleanup method
    dbStatus,           \* [Users -> status field of the user's document]
    lifeKind,           \* [LifeCalls -> the method called]
    lifeUser,           \* [LifeCalls -> userId argument]
    lifePc,             \* [LifeCalls -> stage of the call]
    lifeAgent,          \* [LifeCalls -> id whose cleanup() is awaited]
    lifeVisited,        \* [LifeCalls -> ids shutdown's loop has passed]
    registered,         \* [LifeCalls -> agents.set calls made by the call]
    notified,           \* [LifeCalls -> envelopes the call handed to the router]
    cleaned,            \* [LifeCalls -> cleanup() calls made by the call]
    \* --- one message through a worker, on a drawn classification response
    response,           \* the response of the classification call
    wPc,                \* stage of processUserMessage
    wAttempt,           \* 1: immediate path, 2: resubmitted by the drain loop
    wAnalysis,          \* analysis returned by analyzeAndClassifyMessage
    wClassification,    \* classification returned by it
    wResult,            \* the ProcessedMessage returned
    wFailedAt,          \* the awaited step that threw, per attempt
    wEnvelopes,         \* priorities of the envelopes sent to decision_engine
    wStored,            \* processed_messages records written
    hubPriority,        \* determinePriority(processed) of the hub's envelope
    \* --- the PriorityQueue on drawn calls
    enqueuedItems,      \* items given to enqueue, in call order
    dequeued,           \* entries dequeue has returned, in call order
    lastDequeue,        \* outcome of the latest dequeue call
    \* --- the MessageRouter on drawn registrations and envelopes
    handlers,           \* registrations [type, id, throws], in call order
    envelope,           \* the envelope given to sendMessage
    invoked,            \* ids of the handlers sendMessage invoked, in order
    sendPc,             \* "idle", or the outcome of sendMessage
    \* --- handleProcessedMessage on a drawn ProcessedMessage
    hpProcessed,        \* the argument: [present, intent, urgency, userId]
    hpSocket,           \* the user has a socket in activeConnections
    hpPc,               \* stage of handleProcessedMessage
    hpEvents            \* envelopes sent, sendUserResponse calls, responses

hubVars == <<pc, content, userStatus, viaQueue, proc, messageQueue, sequence,
             handed, submitted, servedAhead, errorRecords, errorResponses>>
workerVars == <<isProcessing, processingQueue>>
prioVars == <<prioContent, prioStatus, prioResult>>
mgrVars == <<initialized, agents, coreInitialized, constructed, monitorStarts,
             trackingStarts, dbUsers, mgrPc, monitoring>>
lifeVars == <<hooks, dbStatus, lifeKind, lifeUser, lifePc, lifeAgent,
              lifeVisited, registered, notified, cleaned>>
pqVars == <<enqueuedItems, dequeued, lastDequeue>>
rtVars == <<handlers, envelope, invoked, sendPc>>
hpVars == <<hpProcessed, hpSocket, hpPc, hpEvents>>
wrkVars == <<response, wPc, wAttempt, wAnalysis, wClassification, wResult,
             wFailedAt, wEnvelopes, wStored, hubPriority>>
vars == <<isProcessing, processingQueue, pc, content, userStatus, viaQueue,
          proc, messageQueue, sequence, handed, submitted, servedAhead, errorRecords,
          errorResponses,
          selected, prioContent, prioStatus, prioResult, initialized, agents,
          coreInitialized, constructed, monitorStarts, trackingStarts,
          dbUsers, mgrPc, monitoring, hooks, dbStatus, lifeKind, lifeUser,
          lifePc, lifeAgent, lifeVisited, registered, notified, cleaned,
          response, wPc, wAttempt, wAnalysis, wClassification, wResult,
          wFailedAt, wEnvelopes, wStored, hubPriority, enqueuedItems,
          dequeued, lastDequeue, handlers, envelope, invoked, sendPc,
          hpProcessed, hpSocket, hpPc, hpEvents>>

\* ------------------------------------------------------------------ worker

\* A variant of isAvailable that ignores the pending-count threshold.
isAvailableNoCap(w) == ~isProcessing[w]

\* UserMessageProcessor.isAvailable()
isAvailable(w) == ~isProcessing[w] /\ processingQueue[w] < MAX_PENDING

\* UserMessageProcessor.queueSize
queueSize(w) == processingQueue[w]

\* A variant of getAvailableProcessor without the inner availability test of
\* processor2.
getAvailableProcessorNoInnerTest ==
    IF isAvailable(1)
    THEN IF queueSize(1) <= queueSize(2) THEN 1 ELSE 2
    ELSE 2

\* A variant of getAvailableProcessor comparing with < instead of <=.
getAvailableProcessorStrict ==
    IF isAvailable(1)
    THEN IF ~isAvailable(2) THEN 1
         ELSE IF queueSize(1) < queueSize(2) THEN 1 ELSE 2
    ELSE 2

\* UserCommunicationHub.getAvailableProcessor(): 1 is processor1, 2 is
\* processor2.
getAvailableProcessor ==
    IF isAvailable(1)
    THEN IF ~isAvailable(2) THEN 1
         ELSE IF queueSize(1) <= queueSize(2) THEN 1 ELSE 2
    ELSE 2

\* A variant of processUserMessage that sets the busy flag only after its
\* first await.
processUserMessageFlagAfterAwait(m, w) ==
    /\ UNCHANGED isProcessing
    /\ proc' = [proc EXCEPT ![m] = w]
    /\ submitted' = [submitted EXCEPT ![m] = @ + 1]
    /\ pc' = [pc EXCEPT ![m] = "processing"]

\* The start of processUserMessage(message) on worker w, up to its first
\* await: "this.isProcessing = true".
processUserMessage(m, w) ==
    /\ isProcessing' = [isProcessing EXCEPT ![w] = TRUE]
    /\ proc' = [proc EXCEPT ![m] = w]
    /\ submitted' = [submitted EXCEPT ![m] = @ + 1]
    /\ pc' = [pc EXCEPT ![m] = "processing"]

\* Calls of processUserMessage on worker w that have started and not settled.
InFlight(w) ==
    Cardinality({m \in Msgs : pc[m] = "processing" /\ proc[m] = w})

\* ----------------------------------------------------------- PriorityQueue

\* PriorityQueue.enqueue(item, priority): the entry takes the next sequence
\* number.
enqueue(q, item, priority, seq) ==
    Append(q, [item |-> item, priority |-> priority, sequence |-> seq])

\* A variant of headIndex that ignores the priority: plain FIFO.
headIndexFifo(q) ==
    CHOOSE i \in DOMAIN q :
        \A j \in DOMAIN q : q[i].sequence <= q[j].sequence

\* Index of the entry dequeue() returns: lowest priority value, then lowest
\* sequence number.
headIndex(q) ==
    CHOOSE i \in DOMAIN q :
        \A j \in DOMAIN q :
            \/ q[i].priority < q[j].priority
            \/ q[i].priority = q[j].priority /\ q[i].sequence <= q[j].sequence

\* PriorityQueue.dequeue(): the item returned, and the queue left.
dequeueItem(q) == q[headIndex(q)].item
\* A variant of dequeueRest that removes the entry at the front of the
\* array, whichever entry was returned.
dequeueRestShift(q) == Tail(q)

dequeueRest(q) ==
    LET h == headIndex(q)
    IN  [i \in 1..(Len(q) - 1) |-> IF i < h THEN q[i] ELSE q[i + 1]]

\* The entry an empty result stands for.
NoEntry == [item |-> "", priority |-> 0, sequence |-> -1]

\* A variant of dequeue() that throws on an empty queue.
dequeueThrowsOnEmpty(q) ==
    IF Len(q) = 0
    THEN [found |-> FALSE, error |-> TRUE, entry |-> NoEntry, rest |-> q]
    ELSE [found |-> TRUE, error |-> FALSE, entry |-> q[headIndex(q)],
          rest |-> dequeueRest(q)]

\* PriorityQueue.dequeue() as one call: an empty result on an empty queue,
\* else the entry returned and the queue left.
dequeue(q) ==
    IF Len(q) = 0
    THEN [found |-> FALSE, error |-> FALSE, entry |-> NoEntry, rest |-> q]
    ELSE [found |-> TRUE, error |-> FALSE, entry |-> q[headIndex(q)],
          rest |-> dequeueRest(q)]

\* PriorityQueue.size()
size(q) == Len(q)

\* PriorityQueue.isEmpty()
isEmpty(q) == Len(q) = 0

\* --------------------------------------------------- UserCommunicationHub

\* handleIncomingMessage(userId, message, context) is called: the user
\* message is being built, its three lookups (getUserName,
\* getUserCurrentTasks, getUserStatus) are awaited. Messages are numbered in
\* the order of their calls.
handleIncomingMessage(m) ==
    /\ pc[m] = "idle"
    /\ IF m = 1 THEN TRUE ELSE pc[m - 1] # "idle"
    /\ \E c \in HubContents : content' = [content EXCEPT ![m] = c]
    /\ pc' = [pc EXCEPT ![m] = "lookup"]
    /\ UNCHANGED <<isProcessing, processingQueue, userStatus, viaQueue, proc,
                   messageQueue, sequence, handed, submitted, servedAhead, errorRecords,
                   errorResponses, selected, prioVars, pqVars, hpVars, rtVars,
                   lifeVars, wrkVars, mgrVars>>

\* One of the lookups awaited before the try block throws: the promise of
\* handleIncomingMessage rejects.
handleIncomingMessageLookupThrows(m) ==
    /\ pc[m] = "lookup"
    /\ pc' = [pc EXCEPT ![m] = "rejected"]
    /\ UNCHANGED <<isProcessing, processingQueue, content, userStatus,
                   viaQueue, proc, messageQueue, sequence, handed, submitted, servedAhead,
                   errorRecords, errorResponses, selected, prioVars, pqVars, hpVars, rtVars,
                   lifeVars, wrkVars, mgrVars>>

\* An earlier message of higher priority (lower priority value) than message
\* m, whose status is s, is waiting in the queue.
WaitsAhead(m, s) ==
    \E i \in DOMAIN messageQueue :
        /\ messageQueue[i].item < m
        /\ messageQueue[i].priority < calculateMessagePriority(content[m], s)

\* A variant of handleIncomingMessageTry that serves an arriving message
\* behind the messages waiting in the queue: with a non-empty queue it is
\* enqueued instead of submitted.
handleIncomingMessageTryBehindQueue(m) ==
    /\ pc[m] = "lookup"
    /\ \E s \in HubStatuses :
          /\ userStatus' = [userStatus EXCEPT ![m] = s]
          /\ IF isEmpty(messageQueue)
             THEN /\ processUserMessage(m, getAvailableProcessor)
                  /\ UNCHANGED <<messageQueue, sequence, servedAhead>>
             ELSE /\ messageQueue' =
                        enqueue(messageQueue, m,
                                calculateMessagePriority(content[m], s),
                                sequence)
                  /\ sequence' = sequence + 1
                  /\ pc' = [pc EXCEPT ![m] = "queued"]
                  /\ UNCHANGED <<isProcessing, proc, submitted, servedAhead>>
    /\ UNCHANGED <<processingQueue, content, viaQueue,
                   handed, errorRecords, errorResponses, selected, prioVars,
                   pqVars, hpVars, rtVars, lifeVars, wrkVars, mgrVars>>

\* The lookups return; the try block selects a worker and calls its
\* processUserMessage (no await in between).
handleIncomingMessageTry(m) ==
    /\ pc[m] = "lookup"
    /\ \E s \in HubStatuses :
          /\ userStatus' = [userStatus EXCEPT ![m] = s]
          /\ servedAhead' = [servedAhead EXCEPT ![m] = WaitsAhead(m, s)]
    /\ processUserMessage(m, getAvailableProcessor)
    /\ UNCHANGED <<processingQueue, content, viaQueue, messageQueue, sequence,
                   handed, errorRecords, errorResponses, selected, prioVars, pqVars, hpVars, rtVars, lifeVars,
                   wrkVars,
                   mgrVars>>

\* The catch block of handleIncomingMessage: priority, enqueue,
\* acknowledgment, return of the "processing" text. It runs in the turn in
\* which the awaited call rejects: no I/O is awaited in between.
handleIncomingMessageCatch(m) ==
    /\ messageQueue' =
           enqueue(messageQueue, m,
                   calculateMessagePriority(content[m], userStatus[m]),
                   sequence)
    /\ sequence' = sequence + 1
    /\ pc' = [pc EXCEPT ![m] = "queued"]

\* The catch block of processMessage: handleProcessingError is called and
\* awaits the write of the error record.
processMessageCatch(m) ==
    /\ pc' = [pc EXCEPT ![m] = "errorWrite"]
    /\ UNCHANGED <<messageQueue, sequence>>

\* processUserMessage on the message's worker returns: its three awaited
\* steps (analyzeAndClassifyMessage, reportToDecisionEngine,
\* storeProcessedMessage) have returned, the finally block clears the busy
\* flag, and the hub hands the result to handleProcessedMessage.
processUserMessageReturns(m) ==
    /\ pc[m] = "processing"
    /\ isProcessing' = [isProcessing EXCEPT ![proc[m]] = FALSE]
    /\ proc' = [proc EXCEPT ![m] = 0]
    /\ servedAhead' = [servedAhead EXCEPT ![m] = FALSE]
    /\ pc' = [pc EXCEPT ![m] = "handle"]
    /\ handed' = [handed EXCEPT ![m] = @ + 1]
    /\ UNCHANGED <<processingQueue, content, userStatus, viaQueue, submitted,
                   messageQueue, sequence, errorRecords, errorResponses,
                   selected, prioVars, pqVars, hpVars, rtVars,
                   lifeVars, wrkVars, mgrVars>>

\* One of the awaited steps of processUserMessage throws: the finally block
\* clears the busy flag and the rejection reaches the caller's catch block,
\* of handleIncomingMessage on the immediate path, of processMessage on the
\* drain path.
processUserMessageThrows(m) ==
    /\ pc[m] = "processing"
    /\ isProcessing' = [isProcessing EXCEPT ![proc[m]] = FALSE]
    /\ proc' = [proc EXCEPT ![m] = 0]
    /\ servedAhead' = [servedAhead EXCEPT ![m] = FALSE]
    /\ IF viaQueue[m] THEN processMessageCatch(m)
                      ELSE handleIncomingMessageCatch(m)
    /\ UNCHANGED <<processingQueue, content, userStatus, viaQueue, handed, submitted,
                   errorRecords, errorResponses, selected, prioVars, pqVars, hpVars, rtVars,
                   lifeVars, wrkVars, mgrVars>>

\* handleProcessedMessage(processed) returns, after generateRecommendations,
\* the router send and sendUserResponse: on the immediate path
\* generateUserResponse follows and handleIncomingMessage returns
\* { aiResponse }, on the drain path processMessage ends.
handleProcessedMessageReturns(m) ==
    /\ pc[m] = "handle"
    /\ pc' = [pc EXCEPT ![m] = IF viaQueue[m] THEN "delivered" ELSE "replied"]
    /\ UNCHANGED <<isProcessing, processingQueue, content, userStatus,
                   viaQueue, proc, messageQueue, sequence, handed, submitted, servedAhead,
                   errorRecords, errorResponses, selected, prioVars, pqVars, hpVars, rtVars,
                   lifeVars, wrkVars, mgrVars>>

\* One of the calls handleProcessedMessage awaits (findUsersWithExpertise,
\* identifyAffectedUsers, the router send) throws: the rejection reaches the
\* caller's catch block.
handleProcessedMessageThrows(m) ==
    /\ pc[m] = "handle"
    /\ IF viaQueue[m] THEN processMessageCatch(m)
                      ELSE handleIncomingMessageCatch(m)
    /\ UNCHANGED <<isProcessing, processingQueue, content, userStatus,
                   viaQueue, proc, handed, submitted, servedAhead, errorRecords, errorResponses,
                   selected, prioVars, pqVars, hpVars, rtVars,
                   lifeVars, wrkVars, mgrVars>>

\* One tick of the setInterval callback of startQueueProcessor: nothing on an
\* empty queue; otherwise dequeue one message, select a worker and call
\* processMessage, which calls processUserMessage at once. Nothing reads the
\* content and status of a message after calculateMessagePriority has: the
\* model forgets them here.
startQueueProcessor ==
    \/ /\ isEmpty(messageQueue)
       /\ UNCHANGED vars
    \/ /\ ~isEmpty(messageQueue)
       /\ LET message == dequeueItem(messageQueue)
          IN  /\ messageQueue' = dequeueRest(messageQueue)
              /\ viaQueue' = [viaQueue EXCEPT ![message] = TRUE]
              /\ content' = [content EXCEPT ![message] = << >>]
              /\ userStatus' = [userStatus EXCEPT ![message] = "active"]
              /\ processUserMessage(message, getAvailableProcessor)
       /\ UNCHANGED <<processingQueue, sequence, handed, servedAhead,
                      errorRecords, errorResponses, selected, prioVars, pqVars, hpVars, rtVars, lifeVars,
                   wrkVars,
                      mgrVars>>

\* The write of the error record awaited by handleProcessingError(error,
\* message) settles: it throws, which ends the handler, or the record is
\* stored and 'error' is emitted to the user's socket when the user has one.
handleProcessingError(m) ==
    /\ pc[m] = "errorWrite"
    /\ \/ /\ pc' = [pc EXCEPT ![m] = "lost"]
          /\ UNCHANGED <<errorRecords, errorResponses>>
       \/ /\ errorRecords' = [errorRecords EXCEPT ![m] = @ + 1]
          /\ pc' = [pc EXCEPT ![m] = "errored"]
          /\ \/ errorResponses' = [errorResponses EXCEPT ![m] = @ + 1]
             \/ UNCHANGED errorResponses
    /\ UNCHANGED <<isProcessing, processingQueue, content, userStatus,
                   viaQueue, proc, messageQueue, sequence, handed, submitted, servedAhead, selected,
                   prioVars, pqVars, hpVars, rtVars,
                   lifeVars, wrkVars, mgrVars>>

\* -------------------------------------------------------- initial states

\* Two workers as constructed: not busy, an empty processingQueue.
WorkerInit ==
    /\ isProcessing = [w \in Workers |-> FALSE]
    /\ processingQueue = [w \in Workers |-> 0]

\* The hub as constructed: an empty PriorityQueue, no message received.
HubInit ==
    /\ pc = [m \in Msgs |-> "idle"]
    /\ content = [m \in Msgs |-> << >>]
    /\ userStatus = [m \in Msgs |-> "active"]
    /\ viaQueue = [m \in Msgs |-> FALSE]
    /\ proc = [m \in Msgs |-> 0]
    /\ messageQueue = << >>
    /\ sequence = 0
    /\ handed = [m \in Msgs |-> 0]
    /\ submitted = [m \in Msgs |-> 0]
    /\ servedAhead = [m \in Msgs |-> FALSE]
    /\ errorRecords = [m \in Msgs |-> 0]
    /\ errorResponses = [m \in Msgs |-> 0]

PrioIdle ==
    /\ prioContent = << >>
    /\ prioStatus = "active"
    /\ prioResult = 0

\* No call of addUser, removeUser or shutdown has been made.
LifeIdle ==
    /\ hooks = {}
    /\ dbStatus = [u \in Users |-> "absent"]
    /\ lifeKind = [c \in LifeCalls |-> "none"]
    /\ lifeUser = [c \in LifeCalls |-> ""]
    /\ lifePc = [c \in LifeCalls |-> "idle"]
    /\ lifeAgent = [c \in LifeCalls |-> ""]
    /\ lifeVisited = [c \in LifeCalls |-> {}]
    /\ registered = [c \in LifeCalls |-> 0]
    /\ notified = [c \in LifeCalls |-> 0]
    /\ cleaned = [c \in LifeCalls |-> 0]

\* No call of the queue has been recorded.
PqIdle ==
    /\ enqueuedItems = << >>
    /\ dequeued = << >>
    /\ lastDequeue = "none"

\* A router without handlers, no envelope sent.
RtIdle ==
    /\ handlers = << >>
    /\ envelope = [type |-> "", source |-> "", target |-> "", priority |-> 0]
    /\ invoked = << >>
    /\ sendPc = "idle"

\* handleProcessedMessage has not been called.
HpIdle ==
    /\ hpProcessed = [present |-> FALSE, intent |-> "<undefined>",
                      urgency |-> "<undefined>", userId |-> FALSE]
    /\ hpSocket = FALSE
    /\ hpPc = "idle"
    /\ hpEvents = << >>

\* A JavaScript undefined (a missing object or field).
undefined == "<undefined>"
NoAnalysis == [present |-> FALSE, intent |-> undefined, messageId |-> undefined]
NoClassification ==
    [present |-> FALSE, urgency |-> undefined, action |-> undefined,
     confidence |-> undefined]
NoResult ==
    [intent |-> undefined, urgency |-> undefined, suggestedAction |-> undefined]

\* No message has been given to the worker.
WrkIdle ==
    /\ response = [content |-> "none", analysis |-> NoAnalysis,
                   classification |-> NoClassification]
    /\ wPc = "idle"
    /\ wAttempt = 1
    /\ wAnalysis = NoAnalysis
    /\ wClassification = NoClassification
    /\ wResult = NoResult
    /\ wFailedAt = << >>
    /\ wEnvelopes = << >>
    /\ wStored = 0
    /\ hubPriority = << >>

StaticAgents ==
    {"roadmap_orchestrator", "repository_scanner_manager",
     "progress_coordinator", "decision_engine", "code_extractor",
     "edit_coordinator", "communication_hub"}

\* The AgentManager as constructed: an empty registry, initialized = false.
MgrInit ==
    /\ initialized = FALSE
    /\ agents = {}
    /\ coreInitialized = {}
    /\ constructed = [a \in StaticAgents |-> 0]
    /\ monitorStarts = 0
    /\ trackingStarts = 0
    /\ dbUsers = {}
    /\ mgrPc = [c \in Callers |-> "idle"]
    /\ monitoring = FALSE

\* ------------------------------------------------- the hub's specification

Init ==
    /\ WorkerInit
    /\ HubInit
    /\ selected = 0
    /\ PrioIdle
    /\ MgrInit
    /\ LifeIdle
    /\ WrkIdle
    /\ PqIdle
    /\ RtIdle
    /\ HpIdle

Next ==
    \/ \E m \in Msgs : handleIncomingMessage(m)
    \/ \E m \in Msgs : handleIncomingMessageLookupThrows(m)
    \/ \E m \in Msgs : handleIncomingMessageTry(m)
    \/ \E m \in Msgs : processUserMessageReturns(m)
    \/ \E m \in Msgs : processUserMessageThrows(m)
    \/ \E m \in Msgs : handleProcessedMessageReturns(m)
    \/ \E m \in Msgs : handleProcessedMessageThrows(m)
    \/ \E m \in Msgs : handleProcessingError(m)
    \/ startQueueProcessor

Spec == Init /\ [][Next]_vars

\* ------------------------------------- worker selection on drawn inputs

\* Worker selection is a function of the two workers' busy flags and
\* processingQueue sizes: every combination is drawn as a starting state.
SelInit ==
    /\ isProcessing \in [Workers -> BOOLEAN]
    /\ processingQueue \in [Workers -> 0..MaxQueueSize]
    /\ HubInit
    /\ selected = 0
    /\ PrioIdle
    /\ MgrInit
    /\ LifeIdle
    /\ WrkIdle
    /\ PqIdle
    /\ RtIdle
    /\ HpIdle

\* const processor = this.getAvailableProcessor()
SelectProcessor ==
    /\ selected = 0
    /\ selected' = getAvailableProcessor
    /\ UNCHANGED <<workerVars, hubVars, prioVars, pqVars, hpVars, rtVars,
                   lifeVars, wrkVars, mgrVars>>

SelNext == SelectProcessor

SelSpec == SelInit /\ [][SelNext]_vars

\* ------------------------------- fallback priority on drawn inputs

PrioInit ==
    /\ WorkerInit
    /\ HubInit
    /\ selected = 0
    /\ prioContent \in SampleContents
    /\ prioStatus \in SampleStatuses
    /\ prioResult = 0
    /\ MgrInit
    /\ LifeIdle
    /\ WrkIdle
    /\ PqIdle
    /\ RtIdle
    /\ HpIdle

\* const priority = this.calculateMessagePriority(userMessage)
ComputePriority ==
    /\ prioResult = 0
    /\ prioResult' = calculateMessagePriority(prioContent, prioStatus)
    /\ UNCHANGED <<workerVars, hubVars, selected, prioContent, prioStatus,
                   mgrVars, lifeVars, wrkVars, pqVars, hpVars, rtVars>>

PrioNext == ComputePriority

PrioSpec == PrioInit /\ [][PrioNext]_vars

\* ------------------------------------------------------------ AgentManager

\* `user_compiler_${userId}`
UserCompilerId(u) == "user_compiler_" \o u

\* The agents initializeAgents constructs before it awaits
\* initializeUserCompilers, and those it constructs after, in order.
AgentsBeforeUsers ==
    <<"roadmap_orchestrator", "repository_scanner_manager",
      "progress_coordinator", "decision_engine">>
AgentsAfterUsers ==
    <<"code_extractor", "edit_coordinator", "communication_hub">>

\* The first k agents of the sequence s.
Prefix(s, k) == {s[i] : i \in 1..k}

\* A variant of initialize without the "already initialized" test.
initializeNoGuard(c) ==
    /\ mgrPc[c] = "idle"
    /\ mgrPc' = [mgrPc EXCEPT ![c] = "router"]
    /\ UNCHANGED <<workerVars, hubVars, selected, prioVars, pqVars, hpVars, rtVars, lifeVars,
                   wrkVars,
                   monitoring, initialized,
                   agents, coreInitialized, constructed, monitorStarts,
                   trackingStarts, dbUsers>>

\* initialize() is called: it returns at once when already initialized, and
\* otherwise awaits messageRouter.initialize().
initialize(c) ==
    /\ mgrPc[c] = "idle"
    /\ mgrPc' = [mgrPc EXCEPT ![c] = IF initialized THEN "returned" ELSE "router"]
    /\ UNCHANGED <<workerVars, hubVars, selected, prioVars, pqVars, hpVars, rtVars, lifeVars,
                   wrkVars,
                   monitoring, initialized,
                   agents, coreInitialized, constructed, monitorStarts,
                   trackingStarts, dbUsers>>

\* await this.messageRouter.initialize() settles; on success
\* healthMonitor.initialize() is awaited. A throw is rethrown to the caller.
messageRouterInitialize(c) ==
    /\ mgrPc[c] = "router"
    /\ \/ /\ coreInitialized' = coreInitialized \cup {"messageRouter"}
          /\ mgrPc' = [mgrPc EXCEPT ![c] = "health"]
       \/ /\ mgrPc' = [mgrPc EXCEPT ![c] = "failed"]
          /\ UNCHANGED coreInitialized
    /\ UNCHANGED <<workerVars, hubVars, selected, prioVars, pqVars, hpVars, rtVars, lifeVars,
                   wrkVars,
                   monitoring, initialized,
                   agents, constructed, monitorStarts, trackingStarts,
                   dbUsers>>

\* await this.healthMonitor.initialize() settles; on success
\* tokenManager.initialize() is awaited.
healthMonitorInitialize(c) ==
    /\ mgrPc[c] = "health"
    /\ \/ /\ coreInitialized' = coreInitialized \cup {"healthMonitor"}
          /\ mgrPc' = [mgrPc EXCEPT ![c] = "token"]
       \/ /\ mgrPc' = [mgrPc EXCEPT ![c] = "failed"]
          /\ UNCHANGED coreInitialized
    /\ UNCHANGED <<workerVars, hubVars, selected, prioVars, pqVars, hpVars, rtVars, lifeVars,
                   wrkVars,
                   monitoring, initialized,
                   agents, constructed, monitorStarts, trackingStarts,
                   dbUsers>>

\* A variant of tokenManagerInitialize in which initializeAgents does not wait
\* for tokenManager.initialize() to complete.
tokenManagerInitializeNotAwaited(c) ==
    /\ mgrPc[c] = "token"
    /\ \E k \in 0..Len(AgentsBeforeUsers) :
          /\ agents' = agents \cup Prefix(AgentsBeforeUsers, k)
          /\ constructed' =
                 [a \in StaticAgents |->
                     IF a \in Prefix(AgentsBeforeUsers, k)
                     THEN constructed[a] + 1 ELSE constructed[a]]
          /\ mgrPc' = [mgrPc EXCEPT ![c] =
                 IF k = Len(AgentsBeforeUsers) THEN "users" ELSE "failed"]
    /\ \/ coreInitialized' = coreInitialized \cup {"tokenManager"}
       \/ UNCHANGED coreInitialized
    /\ UNCHANGED <<workerVars, hubVars, selected, prioVars, pqVars, hpVars, rtVars, lifeVars,
                   wrkVars, monitoring, initialized, monitorStarts,
                   trackingStarts, dbUsers>>

\* await this.tokenManager.initialize() settles. On success initializeAgents
\* runs up to its await of the user listing: the first four agents are
\* constructed and registered in order; a constructor that throws leaves the
\* agents before it registered and the error is rethrown.
tokenManagerInitialize(c) ==
    /\ mgrPc[c] = "token"
    /\ \/ /\ mgrPc' = [mgrPc EXCEPT ![c] = "failed"]
          /\ UNCHANGED <<coreInitialized, agents, constructed>>
       \/ /\ coreInitialized' = coreInitialized \cup {"tokenManager"}
          /\ \E k \in 0..Len(AgentsBeforeUsers) :
                /\ agents' = agents \cup Prefix(AgentsBeforeUsers, k)
                /\ constructed' =
                       [a \in StaticAgents |->
                           IF a \in Prefix(AgentsBeforeUsers, k)
                           THEN constructed[a] + 1 ELSE constructed[a]]
                /\ mgrPc' = [mgrPc EXCEPT ![c] =
                       IF k = Len(AgentsBeforeUsers) THEN "users" ELSE "failed"]
    /\ UNCHANGED <<workerVars, hubVars, selected, prioVars, pqVars, hpVars, rtVars, lifeVars,
                   wrkVars,
                   monitoring, initialized,
                   monitorStarts, trackingStarts, dbUsers>>

\* A variant of initializeUserCompilers that swallows a failure of the user
\* listing: monitoring and tracking are started and initialized is set.
initializeUserCompilersSwallow(c) ==
    /\ mgrPc[c] = "users"
    /\ monitorStarts' = monitorStarts + 1
    /\ trackingStarts' = trackingStarts + 1
    /\ monitoring' = TRUE
    /\ initialized' = TRUE
    /\ mgrPc' = [mgrPc EXCEPT ![c] = "failed"]
    /\ UNCHANGED <<workerVars, hubVars, selected, prioVars, pqVars, hpVars, rtVars, lifeVars,
                   wrkVars, agents, constructed, coreInitialized, dbUsers>>

\* await this.db.collection('users').get() settles in
\* initializeUserCompilers. On success a compiler is registered per user, the
\* last three agents are constructed and registered, initializeAgents
\* returns, monitoring and tracking are started and initialized is set.
initializeUserCompilers(c) ==
    /\ mgrPc[c] = "users"
    /\ \/ /\ mgrPc' = [mgrPc EXCEPT ![c] = "failed"]
          /\ UNCHANGED <<agents, constructed, monitorStarts, trackingStarts,
                         monitoring, initialized>>
       \/ \E k \in 0..Len(AgentsAfterUsers) :
             /\ agents' = agents \cup {UserCompilerId(u) : u \in dbUsers}
                                 \cup Prefix(AgentsAfterUsers, k)
             /\ constructed' =
                    [a \in StaticAgents |->
                        IF a \in Prefix(AgentsAfterUsers, k)
                        THEN constructed[a] + 1 ELSE constructed[a]]
             /\ IF k = Len(AgentsAfterUsers)
                THEN /\ monitorStarts' = monitorStarts + 1
                     /\ trackingStarts' = trackingStarts + 1
                     /\ monitoring' = TRUE
                     /\ initialized' = TRUE
                     /\ mgrPc' = [mgrPc EXCEPT ![c] = "done"]
                ELSE /\ mgrPc' = [mgrPc EXCEPT ![c] = "failed"]
                     /\ UNCHANGED <<monitorStarts, trackingStarts, monitoring,
                                    initialized>>
    /\ UNCHANGED <<workerVars, hubVars, selected, prioVars, pqVars, hpVars, rtVars, lifeVars, wrkVars, coreInitialized,
                   dbUsers>>

\* The manager as constructed, over a users collection of any content.
MgrSpecInit ==
    /\ WorkerInit
    /\ HubInit
    /\ selected = 0
    /\ PrioIdle
    /\ initialized = FALSE
    /\ agents = {}
    /\ coreInitialized = {}
    /\ constructed = [a \in StaticAgents |-> 0]
    /\ monitorStarts = 0
    /\ trackingStarts = 0
    /\ dbUsers \in SUBSET Users
    /\ mgrPc = [c \in Callers |-> "idle"]
    /\ monitoring = FALSE
    /\ LifeIdle
    /\ WrkIdle
    /\ PqIdle
    /\ RtIdle
    /\ HpIdle

MgrNext ==
    \/ \E c \in Callers : initialize(c)
    \/ \E c \in Callers : messageRouterInitialize(c)
    \/ \E c \in Callers : healthMonitorInitialize(c)
    \/ \E c \in Callers : tokenManagerInitialize(c)
    \/ \E c \in Callers : initializeUserCompilers(c)

MgrSpec == MgrSpecInit /\ [][MgrNext]_vars

\* ------------------------------ AgentManager: addUser, removeUser, shutdown

UserCompilerIds == {UserCompilerId(u) : u \in Users}

\* The sets of registered agents that have a cleanup method ("agent.cleanup",
\* "compiler.cleanup"): none, the user compilers, or the user compilers and
\* the communication hub.
HookChoices ==
    { {}, UserCompilerIds, UserCompilerIds \cup {"communication_hub"} }

\* What no step of addUser, removeUser or shutdown changes.
lifeFrame == <<workerVars, hubVars, selected, prioVars, pqVars, hpVars, rtVars, wrkVars,
               coreInitialized, constructed, monitorStarts, trackingStarts,
               mgrPc, hooks>>

\* Call c has not been made, and the calls before it have.
NotYetCalled(c) ==
    /\ lifePc[c] = "idle"
    /\ IF c = 1 THEN TRUE ELSE lifePc[c - 1] # "idle"

\* addUser(userId, userData) is called: the write of the user's document is
\* awaited.
addUser(c, u) ==
    /\ NotYetCalled(c)
    /\ lifeKind' = [lifeKind EXCEPT ![c] = "addUser"]
    /\ lifeUser' = [lifeUser EXCEPT ![c] = u]
    /\ lifePc' = [lifePc EXCEPT ![c] = "set"]
    /\ UNCHANGED <<lifeFrame, initialized, agents, dbUsers, monitoring,
                   dbStatus, lifeAgent, lifeVisited, registered, notified,
                   cleaned>>

\* A variant of addUserSet that registers the compiler although the write
\* of the user's document failed.
addUserSetRegistersAnyway(c) ==
    /\ lifeKind[c] = "addUser" /\ lifePc[c] = "set"
    /\ agents' = agents \cup {UserCompilerId(lifeUser[c])}
    /\ registered' = [registered EXCEPT ![c] = @ + 1]
    /\ \/ /\ lifePc' = [lifePc EXCEPT ![c] = "setFailed"]
          /\ UNCHANGED <<dbUsers, dbStatus, notified>>
       \/ /\ dbUsers' = dbUsers \cup {lifeUser[c]}
          /\ dbStatus' = [dbStatus EXCEPT ![lifeUser[c]] = "active"]
          /\ notified' = [notified EXCEPT ![c] = @ + 1]
          /\ lifePc' = [lifePc EXCEPT ![c] = "notify"]
    /\ UNCHANGED <<lifeFrame, initialized, monitoring, lifeKind, lifeUser,
                   lifeAgent, lifeVisited, cleaned>>

\* The write awaited by addUser settles. A throw ends the call. Otherwise the
\* document is stored, the compiler is constructed and set in the registry
\* (a new key goes to the end of the Map, where a shutdown loop under way
\* still finds it) and the USER_REGISTERED envelope is handed to the router,
\* whose sendMessage is awaited.
addUserSet(c) ==
    /\ lifeKind[c] = "addUser" /\ lifePc[c] = "set"
    /\ \/ /\ lifePc' = [lifePc EXCEPT ![c] = "setFailed"]
          /\ UNCHANGED <<agents, dbUsers, dbStatus, registered, notified,
                         lifeVisited>>
       \/ /\ dbUsers' = dbUsers \cup {lifeUser[c]}
          /\ dbStatus' = [dbStatus EXCEPT ![lifeUser[c]] = "active"]
          /\ agents' = agents \cup {UserCompilerId(lifeUser[c])}
          /\ lifeVisited' =
                 IF UserCompilerId(lifeUser[c]) \in agents THEN lifeVisited
                 ELSE [d \in LifeCalls |->
                          lifeVisited[d] \ {UserCompilerId(lifeUser[c])}]
          /\ registered' = [registered EXCEPT ![c] = @ + 1]
          /\ notified' = [notified EXCEPT ![c] = @ + 1]
          /\ lifePc' = [lifePc EXCEPT ![c] = "notify"]
    /\ UNCHANGED <<lifeFrame, initialized, monitoring, lifeKind, lifeUser,
                   lifeAgent, cleaned>>

\* messageRouter.sendMessage awaited by addUser settles: addUser returns, or
\* rejects with the router's error.
addUserNotify(c) ==
    /\ lifeKind[c] = "addUser" /\ lifePc[c] = "notify"
    /\ \E r \in {"done", "failed"} : lifePc' = [lifePc EXCEPT ![c] = r]
    /\ UNCHANGED <<lifeFrame, initialized, agents, dbUsers, monitoring,
                   dbStatus, lifeKind, lifeUser, lifeAgent, lifeVisited,
                   registered, notified, cleaned>>

\* removeUser(userId) is called: the USER_DEPARTED envelope is handed to the
\* router, whose sendMessage is awaited.
removeUser(c, u) ==
    /\ NotYetCalled(c)
    /\ lifeKind' = [lifeKind EXCEPT ![c] = "removeUser"]
    /\ lifeUser' = [lifeUser EXCEPT ![c] = u]
    /\ notified' = [notified EXCEPT ![c] = @ + 1]
    /\ lifePc' = [lifePc EXCEPT ![c] = "notify"]
    /\ UNCHANGED <<lifeFrame, initialized, agents, dbUsers, monitoring,
                   dbStatus, lifeAgent, lifeVisited, registered, cleaned>>

\* this.agents.delete(`user_compiler_${userId}`), followed by the call of the
\* update of the user's document, which is awaited.
removeUserDelete(c) ==
    /\ agents' = agents \ {UserCompilerId(lifeUser[c])}
    /\ lifePc' = [lifePc EXCEPT ![c] = "update"]

\* sendMessage awaited by removeUser settles. A throw ends the call.
\* Otherwise the compiler is looked up: its cleanup() is called and awaited
\* when it is registered and has one; else the entry is deleted at once.
removeUserNotify(c) ==
    /\ lifeKind[c] = "removeUser" /\ lifePc[c] = "notify"
    /\ \/ /\ lifePc' = [lifePc EXCEPT ![c] = "failed"]
          /\ UNCHANGED <<agents, lifeAgent, cleaned>>
       \/ IF /\ UserCompilerId(lifeUser[c]) \in agents
             /\ UserCompilerId(lifeUser[c]) \in hooks
          THEN /\ lifeAgent' =
                      [lifeAgent EXCEPT ![c] = UserCompilerId(lifeUser[c])]
               /\ cleaned' = [cleaned EXCEPT ![c] = @ + 1]
               /\ lifePc' = [lifePc EXCEPT ![c] = "cleanup"]
               /\ UNCHANGED agents
          ELSE /\ removeUserDelete(c)
               /\ UNCHANGED <<lifeAgent, cleaned>>
    /\ UNCHANGED <<lifeFrame, initialized, dbUsers, monitoring, dbStatus,
                   lifeKind, lifeUser, lifeVisited, registered, notified>>

\* compiler.cleanup() awaited by removeUser settles: a throw ends the call
\* with the entry still registered; otherwise the entry is deleted.
removeUserCleanup(c) ==
    /\ lifeKind[c] = "removeUser" /\ lifePc[c] = "cleanup"
    /\ \/ /\ lifePc' = [lifePc EXCEPT ![c] = "failed"]
          /\ UNCHANGED agents
       \/ removeUserDelete(c)
    /\ UNCHANGED <<lifeFrame, initialized, dbUsers, monitoring, dbStatus,
                   lifeKind, lifeUser, lifeAgent, lifeVisited, registered,
                   notified, cleaned>>

\* The update({status: 'inactive', departedAt}) awaited by removeUser
\* settles: it throws (it always does when the document does not exist), or
\* the status is stored and removeUser returns.
removeUserUpdate(c) ==
    /\ lifeKind[c] = "removeUser" /\ lifePc[c] = "update"
    /\ \/ /\ lifePc' = [lifePc EXCEPT ![c] = "failed"]
          /\ UNCHANGED dbStatus
       \/ /\ lifeUser[c] \in dbUsers
          /\ dbStatus' = [dbStatus EXCEPT ![lifeUser[c]] = "inactive"]
          /\ lifePc' = [lifePc EXCEPT ![c] = "done"]
    /\ UNCHANGED <<lifeFrame, initialized, agents, dbUsers, monitoring,
                   lifeKind, lifeUser, lifeAgent, lifeVisited, registered,
                   notified, cleaned>>

\* The loop "for (const [id, agent] of this.agents)" of shutdown, from the
\* entries already visited up to its next await: the next registered agent
\* with a cleanup method has it called; when there is none left the registry
\* is cleared, initialized is reset and shutdown returns. The loop visits the
\* Map in insertion order; the model lets it take the agents with a cleanup
\* method in any order.
shutdownLoop(c, visited) ==
    LET todo == (agents \cap hooks) \ visited
    IN  /\ lifeVisited' = [lifeVisited EXCEPT ![c] = visited]
        /\ IF todo = {}
           THEN /\ agents' = {}
                /\ initialized' = FALSE
                /\ lifePc' = [lifePc EXCEPT ![c] = "done"]
                /\ UNCHANGED <<lifeAgent, cleaned>>
           ELSE /\ \E a \in todo : lifeAgent' = [lifeAgent EXCEPT ![c] = a]
                /\ cleaned' = [cleaned EXCEPT ![c] = @ + 1]
                /\ lifePc' = [lifePc EXCEPT ![c] = "cleanup"]
                /\ UNCHANGED <<agents, initialized>>

\* shutdown() is called: monitoring and tracking are stopped and the loop
\* over the registry starts.
shutdown(c) ==
    /\ NotYetCalled(c)
    /\ lifeKind' = [lifeKind EXCEPT ![c] = "shutdown"]
    /\ monitoring' = FALSE
    /\ shutdownLoop(c, {})
    /\ UNCHANGED <<lifeFrame, dbUsers, dbStatus, lifeUser, registered,
                   notified>>

\* agent.cleanup() awaited by shutdown settles: a throw ends shutdown there;
\* otherwise the loop goes on.
shutdownCleanup(c) ==
    /\ lifeKind[c] = "shutdown" /\ lifePc[c] = "cleanup"
    /\ \/ /\ lifePc' = [lifePc EXCEPT ![c] = "failed"]
          /\ UNCHANGED <<agents, initialized, lifeAgent, lifeVisited, cleaned>>
       \/ shutdownLoop(c, lifeVisited[c] \cup {lifeAgent[c]})
    /\ UNCHANGED <<lifeFrame, dbUsers, monitoring, dbStatus, lifeKind,
                   lifeUser, registered, notified>>

\* The manager after one successful initialize(), over a users collection of
\* any content and agents with or without cleanup methods.
LifeInit ==
    /\ WorkerInit
    /\ HubInit
    /\ selected = 0
    /\ PrioIdle
    /\ WrkIdle
    /\ PqIdle
    /\ RtIdle
    /\ HpIdle
    /\ dbUsers \in SUBSET Users
    /\ hooks \in HookChoices
    /\ initialized = TRUE
    /\ agents = StaticAgents \cup {UserCompilerId(u) : u \in dbUsers}
    /\ coreInitialized = {"messageRouter", "healthMonitor", "tokenManager"}
    /\ constructed = [a \in StaticAgents |-> 1]
    /\ monitorStarts = 1
    /\ trackingStarts = 1
    /\ monitoring = TRUE
    /\ mgrPc = [c \in Callers |-> IF c = 1 THEN "done" ELSE "idle"]
    /\ dbStatus = [u \in Users |-> IF u \in dbUsers THEN "active" ELSE "absent"]
    /\ lifeKind = [c \in LifeCalls |-> "none"]
    /\ lifeUser = [c \in LifeCalls |-> ""]
    /\ lifePc = [c \in LifeCalls |-> "idle"]
    /\ lifeAgent = [c \in LifeCalls |-> ""]
    /\ lifeVisited = [c \in LifeCalls |-> {}]
    /\ registered = [c \in LifeCalls |-> 0]
    /\ notified = [c \in LifeCalls |-> 0]
    /\ cleaned = [c \in LifeCalls |-> 0]

LifeNext ==
    \/ \E c \in LifeCalls, u \in Users : addUser(c, u)
    \/ \E c \in LifeCalls : addUserSet(c)
    \/ \E c \in LifeCalls : addUserNotify(c)
    \/ \E c \in LifeCalls, u \in Users : removeUser(c, u)
    \/ \E c \in LifeCalls : removeUserNotify(c)
    \/ \E c \in LifeCalls : removeUserCleanup(c)
    \/ \E c \in LifeCalls : removeUserUpdate(c)
    \/ \E c \in LifeCalls : shutdown(c)
    \/ \E c \in LifeCalls : shutdownCleanup(c)

LifeSpec == LifeInit /\ [][LifeNext]_vars

\* --------------------------- UserMessageProcessor: one message, step by step

\* JavaScript "x || d" on a string or undefined: d when x is falsy.
orDefault(x, d) == IF x \in {undefined, ""} THEN d ELSE x

\* A value returned by a property lookup followed by "|| 3".
Number(n) == [type |-> "number", value |-> n]
Inherited(k) == [type |-> IF k = "__proto__" THEN "object" ELSE "function",
                 value |-> 0]

\* const priorityMap: Record<string, number> = { critical: 1, ... }
priorityMap == [critical |-> 1, high |-> 2, medium |-> 3, low |-> 4]

\* priorityMap is an object literal: a lookup of a key it does not own goes
\* on to Object.prototype, whose properties are functions (an object for
\* __proto__), all truthy.
ObjectPrototypeKeys ==
    {"constructor", "toString", "toLocaleString", "valueOf", "hasOwnProperty",
     "isPrototypeOf", "propertyIsEnumerable", "__proto__"}

\* UserMessageProcessor.mapUrgencyToPriority(urgency):
\* "return priorityMap[urgency] || 3"
mapUrgencyToPriority(urgency) ==
    IF urgency \in DOMAIN priorityMap THEN Number(priorityMap[urgency])
    ELSE IF urgency \in ObjectPrototypeKeys THEN Inherited(urgency)
    ELSE Number(3)

\* UserCommunicationHub.determinePriority(processed), of processed.urgency:
\* "return priorityMap[processed.urgency] || 3" on a map of its own.
determinePriority(urgency) ==
    LET hubPriorityMap == [critical |-> 1, high |-> 2, medium |-> 3, low |-> 4]
    IN  IF urgency \in DOMAIN hubPriorityMap
        THEN Number(hubPriorityMap[urgency])
        ELSE IF urgency \in ObjectPrototypeKeys THEN Inherited(urgency)
        ELSE Number(3)

\* The fallback of analyzeAndClassifyMessage's catch block.
FallbackAnalysis ==
    [present |-> TRUE, intent |-> "help", messageId |-> "fallback"]
FallbackClassification ==
    [present |-> TRUE, urgency |-> "medium", action |-> "provide_help",
     confidence |-> "0.5"]

\* Values of classification.urgency in a parsed response.
Urgencies ==
    {undefined, "", "critical", "high", "medium", "low", "asap", "Critical",
     "constructor", "toString"}

\* The analysis and classification objects a parsed response may hold.
AnalysisValues ==
    {NoAnalysis} \cup
    {[present |-> TRUE, intent |-> i, messageId |-> "m1"] :
        i \in {undefined, "", "question"}}
ClassificationValues ==
    {NoClassification} \cup
    {[present |-> TRUE, urgency |-> u, action |-> a, confidence |-> "0.9"] :
        u \in Urgencies, a \in {undefined, "escalate"}}

\* Responses of the classification call: no content; content without the
\* delimiters; delimited text JSON.parse rejects; delimited "null"; a
\* delimited JSON object.
Responses ==
    {[content |-> k, analysis |-> NoAnalysis,
      classification |-> NoClassification] :
        k \in {"empty", "noDelimiters", "unparseable", "null"}}
    \cup
    {[content |-> "json", analysis |-> a, classification |-> c] :
        a \in AnalysisValues, c \in ClassificationValues}

\* What analyzeAndClassifyMessage returns for a response with content: the
\* parsed analysis and classification, or the fallback when the match, the
\* parse or the read of result.analysis throws inside the try block.
parseResponse(r) ==
    IF r.content = "json"
    THEN [analysis |-> r.analysis, classification |-> r.classification]
    ELSE [analysis |-> FallbackAnalysis,
          classification |-> FallbackClassification]

\* What no step of the worker changes.
wrkFrame == <<processingQueue, hubVars, selected, prioVars, pqVars, hpVars, rtVars, mgrVars, lifeVars>>

\* processUserMessage rejects because step threw: the finally block clears
\* the busy flag.
processUserMessageRejects(step) ==
    /\ isProcessing' = [isProcessing EXCEPT ![1] = FALSE]
    /\ wFailedAt' = Append(wFailedAt, step)
    /\ wPc' = "rejected"

\* processor1.processUserMessage(message) is called by handleIncomingMessage:
\* the flag is set and the classification call is awaited.
processUserMessageCall ==
    /\ wPc = "idle"
    /\ isProcessing' = [isProcessing EXCEPT ![1] = TRUE]
    /\ wPc' = "analyze"
    /\ UNCHANGED <<wrkFrame, response, wAttempt, wAnalysis, wClassification,
                   wResult, wFailedAt, wEnvelopes, wStored, hubPriority>>

\* openai.chat.completions.create awaited by analyzeAndClassifyMessage
\* settles. It throws; or it returns a response: without content
\* analyzeAndClassifyMessage throws before its try block; otherwise it
\* returns the parsed objects or the fallback, and reportToDecisionEngine
\* builds its envelope, which throws a TypeError on classification.urgency
\* or analysis.messageId of a missing object, and hands it to
\* messageRouter.sendMessage, which is awaited.
analyzeAndClassifyMessage ==
    /\ wPc = "analyze"
    /\ \/ /\ processUserMessageRejects("create")
          /\ UNCHANGED <<response, wAnalysis, wClassification, wEnvelopes>>
       \/ \E r \in Responses :
             /\ response' = r
             /\ IF r.content = "empty"
                THEN /\ processUserMessageRejects("emptyContent")
                     /\ UNCHANGED <<wAnalysis, wClassification, wEnvelopes>>
                ELSE /\ wAnalysis' = parseResponse(r).analysis
                     /\ wClassification' = parseResponse(r).classification
                     /\ IF /\ parseResponse(r).classification.present
                           /\ parseResponse(r).analysis.present
                        THEN /\ wEnvelopes' = Append(wEnvelopes,
                                   [urgency |->
                                        parseResponse(r).classification.urgency,
                                    priority |-> mapUrgencyToPriority(
                                        parseResponse(r).classification.urgency),
                                    attempt |-> wAttempt])
                             /\ wPc' = "report"
                             /\ UNCHANGED <<isProcessing, wFailedAt>>
                        ELSE /\ processUserMessageRejects("typeError")
                             /\ UNCHANGED wEnvelopes
    /\ UNCHANGED <<wrkFrame, wAttempt, wResult, wStored, hubPriority>>

\* messageRouter.sendMessage awaited by reportToDecisionEngine settles: on a
\* throw processUserMessage rejects; otherwise storeProcessedMessage calls
\* the add of the processed_messages record, which is awaited.
reportToDecisionEngine ==
    /\ wPc = "report"
    /\ \/ processUserMessageRejects("send")
       \/ /\ wPc' = "store"
          /\ UNCHANGED <<isProcessing, wFailedAt>>
    /\ UNCHANGED <<wrkFrame, response, wAttempt, wAnalysis, wClassification,
                   wResult, wEnvelopes, wStored, hubPriority>>

\* The add of the processed_messages record awaited by storeProcessedMessage
\* settles: on a throw processUserMessage rejects; otherwise the record is
\* stored and processUserMessage returns the ProcessedMessage, with its
\* defaults, after the finally block has cleared the flag.
storeProcessedMessage ==
    /\ wPc = "store"
    /\ \/ /\ processUserMessageRejects("store")
          /\ UNCHANGED <<wStored, wResult>>
       \/ /\ wStored' = wStored + 1
          /\ isProcessing' = [isProcessing EXCEPT ![1] = FALSE]
          /\ wResult' =
                 [intent |-> orDefault(wAnalysis.intent, "help"),
                  urgency |-> orDefault(wClassification.urgency, "medium"),
                  suggestedAction |->
                      orDefault(wClassification.action, "provide_help")]
          /\ wPc' = "returned"
          /\ UNCHANGED wFailedAt
    /\ UNCHANGED <<wrkFrame, response, wAttempt, wAnalysis, wClassification,
                   wEnvelopes, hubPriority>>

\* handleProcessedMessage(processed), awaited in the try block of the caller
\* after processUserMessage has returned. One of its awaits
\* (generateRecommendations, identifyAffectedUsers, messageRouter.sendMessage,
\* sendUserResponse) throws, and the catch block of the caller runs as for a
\* rejected processUserMessage; or the hub's envelope to decision_engine is
\* built with determinePriority(processed) and sent.
handleProcessedMessageSend ==
    /\ wPc = "returned"
    /\ \/ /\ wFailedAt' = Append(wFailedAt, "handle")
          /\ wPc' = "rejected"
          /\ UNCHANGED hubPriority
       \/ /\ hubPriority' = Append(hubPriority,
                 [urgency |-> wResult.urgency,
                  priority |-> determinePriority(wResult.urgency)])
          /\ wPc' = "handled"
          /\ UNCHANGED wFailedAt
    /\ UNCHANGED <<wrkFrame, isProcessing, response, wAttempt, wAnalysis,
                   wClassification, wResult, wEnvelopes, wStored>>

\* The try block of handleIncomingMessage has thrown (processUserMessage
\* rejected, or handleProcessedMessage threw): its catch block has enqueued
\* the message, a tick of the drain loop dequeues it and processMessage calls
\* processUserMessage for it again.
processMessage ==
    /\ wPc = "rejected"
    /\ wAttempt = 1
    /\ wAttempt' = 2
    /\ isProcessing' = [isProcessing EXCEPT ![1] = TRUE]
    /\ response' = [content |-> "none", analysis |-> NoAnalysis,
                    classification |-> NoClassification]
    /\ wAnalysis' = NoAnalysis
    /\ wClassification' = NoClassification
    /\ wPc' = "analyze"
    /\ UNCHANGED <<wrkFrame, wResult, wFailedAt, wEnvelopes, wStored,
                   hubPriority>>

\* A hub and its worker as constructed, before the message arrives.
WorkInit ==
    /\ WorkerInit
    /\ HubInit
    /\ selected = 0
    /\ PrioIdle
    /\ MgrInit
    /\ LifeIdle
    /\ WrkIdle
    /\ PqIdle
    /\ RtIdle
    /\ HpIdle

WorkNext ==
    \/ processUserMessageCall
    \/ analyzeAndClassifyMessage
    \/ reportToDecisionEngine
    \/ storeProcessedMessage
    \/ handleProcessedMessageSend
    \/ processMessage

WorkSpec == WorkInit /\ [][WorkNext]_vars

\* ------------------------------------------------- PriorityQueue, alone

\* Items handed to enqueue, and the priority values calculateMessagePriority
\* yields.
QItems == {"A", "B"}
QPriorities == {1, 2, 3}

pqFrame == <<hpVars, workerVars, pc, content, userStatus, viaQueue, proc, handed,
             submitted, servedAhead, errorRecords, errorResponses, selected, prioVars,
             rtVars, mgrVars, lifeVars, wrkVars>>

\* messageQueue.enqueue(item, priority), as called by the catch block of
\* handleIncomingMessage.
messageQueueEnqueue(item, priority) ==
    /\ sequence < MaxEnqueues
    /\ messageQueue' = enqueue(messageQueue, item, priority, sequence)
    /\ sequence' = sequence + 1
    /\ enqueuedItems' = Append(enqueuedItems,
                               [item |-> item, priority |-> priority,
                                sequence |-> sequence])
    /\ UNCHANGED <<dequeued, lastDequeue, pqFrame>>

\* messageQueue.dequeue(), as called by the drain tick. A result is recorded
\* with the number of enqueue calls made before it.
messageQueueDequeue ==
    LET r == dequeue(messageQueue)
    IN  /\ messageQueue' = r.rest
        /\ lastDequeue' = IF r.error THEN "error"
                          ELSE IF r.found THEN "item" ELSE "empty"
        /\ dequeued' = IF r.found
                       THEN Append(dequeued,
                                   [item |-> r.entry.item,
                                    priority |-> r.entry.priority,
                                    sequence |-> r.entry.sequence,
                                    at |-> sequence])
                       ELSE dequeued
        /\ UNCHANGED <<sequence, enqueuedItems, pqFrame>>

QueueInit ==
    /\ WorkerInit
    /\ HubInit
    /\ selected = 0
    /\ PrioIdle
    /\ MgrInit
    /\ LifeIdle
    /\ WrkIdle
    /\ PqIdle
    /\ RtIdle
    /\ HpIdle

QueueNext ==
    \/ \E item \in QItems, priority \in QPriorities :
          messageQueueEnqueue(item, priority)
    \/ messageQueueDequeue

QueueSpec == QueueInit /\ [][QueueNext]_vars

\* --------------------- AgentManager: initialize and the later calls together

\* A new AgentManager, over a users collection of any content and agents
\* with or without cleanup methods; initialize(), addUser, removeUser and
\* shutdown are called in any order and overlap.
RegistryInit ==
    /\ WorkerInit
    /\ HubInit
    /\ selected = 0
    /\ PrioIdle
    /\ WrkIdle
    /\ PqIdle
    /\ RtIdle
    /\ HpIdle
    /\ dbUsers \in SUBSET Users
    /\ hooks \in HookChoices
    /\ initialized = FALSE
    /\ agents = {}
    /\ coreInitialized = {}
    /\ constructed = [a \in StaticAgents |-> 0]
    /\ monitorStarts = 0
    /\ trackingStarts = 0
    /\ monitoring = FALSE
    /\ mgrPc = [c \in Callers |-> "idle"]
    /\ dbStatus = [u \in Users |-> IF u \in dbUsers THEN "active" ELSE "absent"]
    /\ lifeKind = [c \in LifeCalls |-> "none"]
    /\ lifeUser = [c \in LifeCalls |-> ""]
    /\ lifePc = [c \in LifeCalls |-> "idle"]
    /\ lifeAgent = [c \in LifeCalls |-> ""]
    /\ lifeVisited = [c \in LifeCalls |-> {}]
    /\ registered = [c \in LifeCalls |-> 0]
    /\ notified = [c \in LifeCalls |-> 0]
    /\ cleaned = [c \in LifeCalls |-> 0]

RegistryNext ==
    \/ MgrNext
    \/ LifeNext

RegistrySpec == RegistryInit /\ [][RegistryNext]_vars

\* ------------------------------------ the hub of a manager that is shut down

\* The hub constructed by a successful initialize(), whose constructor has
\* started the drain loop, in a registry without users and without cleanup
\* methods (UserCommunicationHub has none): shutdown() then runs to its end
\* without an await.
ShutdownInit ==
    /\ LifeInit
    /\ dbUsers = {}
    /\ hooks = {}

ShutdownNext ==
    \/ Next
    \/ \E c \in LifeCalls : shutdown(c)

ShutdownSpec == ShutdownInit /\ [][ShutdownNext]_vars

\* ------------------------------------------------------------ MessageRouter

\* Message types, and the agents that register handlers and that envelopes
\* name as source and target.
Types == {"CODE_EXTRACTED", "USER_REGISTERED"}
AgentNames == {"edit_coordinator", "roadmap_orchestrator"}
\* Envelope priorities: 1 (critical) and 4 (low).
EnvelopePriorities == {1, 4}
Envelopes ==
    [type : Types, source : AgentNames, target : AgentNames,
     priority : EnvelopePriorities]

\* The handlers of hs registered for a type, in registration order.
handlersFor(hs, type) == SelectSeq(hs, LAMBDA h : h.type = type)

\* The record of one handler invocation.
invocations(hit) ==
    [i \in DOMAIN hit |-> [id |-> hit[i].id, threw |-> hit[i].throws]]

\* A variant of dispatch that lets the first error of a handler end the
\* delivery and reject sendMessage.
dispatchStopsAtThrow(hs, env) ==
    LET hit == handlersFor(hs, env.type)
        thrown == {i \in DOMAIN hit : hit[i].throws}
    IN  IF thrown = {}
        THEN [invoked |-> invocations(hit), rejected |-> FALSE]
        ELSE LET k == CHOOSE i \in thrown : \A j \in thrown : i <= j
             IN  [invoked |-> invocations(SubSeq(hit, 1, k)),
                  rejected |-> TRUE]

\* A variant of dispatch that delivers to the handlers of the target agent
\* only.
dispatchToTarget(hs, env) ==
    [invoked |-> invocations(SelectSeq(handlersFor(hs, env.type),
                                       LAMBDA h : h.agent = env.target)),
     rejected |-> FALSE]

\* MessageRouter.sendMessage(envelope), the delivery: every handler
\* registered for envelope.type is invoked with the envelope, in registration
\* order; an error of a handler is caught and logged.
dispatch(hs, env) ==
    [invoked |-> invocations(handlersFor(hs, env.type)), rejected |-> FALSE]

rtFrame == <<workerVars, hubVars, selected, prioVars, pqVars, hpVars, mgrVars,
             lifeVars, wrkVars>>

\* messageRouter.on(type, handler), called by an agent; the handler throws
\* when invoked, or not.
messageRouterOn(type, agent, throws) ==
    /\ Len(handlers) < MaxHandlers
    /\ handlers' = Append(handlers,
                          [type |-> type, agent |-> agent,
                           id |-> Len(handlers) + 1, throws |-> throws])
    /\ UNCHANGED <<envelope, invoked, sendPc, rtFrame>>

\* messageRouter.sendMessage(env) is called and awaited.
sendMessage(env) ==
    /\ sendPc \in {"idle", "resolved", "rejected"}
    /\ envelope' = env
    /\ invoked' = << >>
    /\ sendPc' = "dispatching"
    /\ UNCHANGED <<handlers, rtFrame>>

\* The delivery is made and sendMessage settles.
sendMessageDispatch ==
    /\ sendPc = "dispatching"
    /\ LET r == dispatch(handlers, envelope)
       IN  /\ invoked' = r.invoked
           /\ sendPc' = IF r.rejected THEN "rejected" ELSE "resolved"
    /\ UNCHANGED <<handlers, envelope, rtFrame>>

RouterInit ==
    /\ WorkerInit
    /\ HubInit
    /\ selected = 0
    /\ PrioIdle
    /\ MgrInit
    /\ LifeIdle
    /\ WrkIdle
    /\ PqIdle
    /\ RtIdle
    /\ HpIdle

RouterNext ==
    \/ \E type \in Types, agent \in AgentNames, throws \in BOOLEAN :
          messageRouterOn(type, agent, throws)
    \/ \E env \in Envelopes : sendMessage(env)
    \/ sendMessageDispatch

RouterSpec == RouterInit /\ [][RouterNext]_vars

\* ------------------------------------- handleProcessedMessage, step by step

\* The ProcessedMessage values handed to handleProcessedMessage: none, or an
\* object whose intent and urgency may be missing and whose originalMessage
\* has a userId or not.
ProcessedValues ==
    {[present |-> FALSE, intent |-> undefined, urgency |-> undefined,
      userId |-> FALSE]} \cup
    [present : {TRUE}, intent : {undefined, "", "help", "question"},
     urgency : {undefined, "critical", "medium"}, userId : BOOLEAN]

\* "!processed || !processed.intent"
invalidProcessed(p) == ~p.present \/ p.intent \in {undefined, ""}

\* An entry of hpEvents.
hpEvent(kind, type, target, priority) ==
    [kind |-> kind, type |-> type, target |-> target, priority |-> priority]

hpFrame == <<workerVars, hubVars, selected, prioVars, pqVars, rtVars,
             mgrVars, lifeVars, wrkVars>>

\* A variant of handleProcessedMessage without its safety check.
handleProcessedMessageNoCheck(p, socket) ==
    /\ hpPc = "idle"
    /\ hpProcessed' = p
    /\ hpSocket' = socket
    /\ hpPc' = "recommend"
    /\ UNCHANGED <<hpEvents, hpFrame>>

\* handleProcessedMessage(processed) is called: it returns at once for a
\* missing result or a result without intent; otherwise
\* generateRecommendations is awaited.
handleProcessedMessage(p, socket) ==
    /\ hpPc = "idle"
    /\ hpProcessed' = p
    /\ hpSocket' = socket
    /\ hpPc' = IF invalidProcessed(p) THEN "returned" ELSE "recommend"
    /\ UNCHANGED <<hpEvents, hpFrame>>

\* generateRecommendations settles: for intent 'help' its query of the users
\* collection (findUsersWithExpertise) may reject, and handleProcessedMessage
\* rejects; otherwise identifyAffectedUsers is awaited.
generateRecommendations ==
    /\ hpPc = "recommend"
    /\ \/ /\ hpProcessed.intent = "help"
          /\ hpPc' = "thrown"
       \/ hpPc' = "affected"
    /\ UNCHANGED <<hpProcessed, hpSocket, hpEvents, hpFrame>>

\* identifyAffectedUsers settles: its query of the tasks collection may
\* reject; otherwise the USER_COMMUNICATION envelope is built and given to
\* messageRouter.sendMessage, which is awaited.
identifyAffectedUsers ==
    /\ hpPc = "affected"
    /\ \/ /\ hpPc' = "thrown"
          /\ UNCHANGED hpEvents
       \/ /\ hpEvents' = Append(hpEvents,
                 hpEvent("envelope", "USER_COMMUNICATION", "decision_engine",
                         determinePriority(hpProcessed.urgency)))
          /\ hpPc' = "send"
    /\ UNCHANGED <<hpProcessed, hpSocket, hpFrame>>

\* sendMessage settles: on a rejection handleProcessedMessage rejects;
\* otherwise sendUserResponse(processed) is called, which returns at once
\* without a userId or without a socket of the user, and otherwise awaits
\* generateUserResponse.
sendUserResponse ==
    /\ hpPc = "send"
    /\ \/ /\ hpPc' = "thrown"
          /\ UNCHANGED hpEvents
       \/ /\ hpEvents' = Append(hpEvents,
                 hpEvent("sendUserResponse", "", "", Number(0)))
          /\ hpPc' = IF hpProcessed.userId /\ hpSocket THEN "respond"
                     ELSE "returned"
    /\ UNCHANGED <<hpProcessed, hpSocket, hpFrame>>

\* generateUserResponse returns (its own errors are caught) and 'response' is
\* emitted to the user's socket; handleProcessedMessage returns.
socketEmitResponse ==
    /\ hpPc = "respond"
    /\ hpEvents' = Append(hpEvents, hpEvent("response", "", "", Number(0)))
    /\ hpPc' = "returned"
    /\ UNCHANGED <<hpProcessed, hpSocket, hpFrame>>

HandleInit ==
    /\ WorkerInit
    /\ HubInit
    /\ selected = 0
    /\ PrioIdle
    /\ MgrInit
    /\ LifeIdle
    /\ WrkIdle
    /\ PqIdle
    /\ RtIdle
    /\ HpIdle

HandleNext ==
    \/ \E p \in ProcessedValues, socket \in BOOLEAN :
          handleProcessedMessage(p, socket)
    \/ generateRecommendations
    \/ identifyAffectedUsers
    \/ sendUserResponse
    \/ socketEmitResponse

HandleSpec == HandleInit /\ [][HandleNext]_vars

\* ------------------------------------------------------------------ claims

\* The spec's availability predicate: !busy && pendingCount < 5.
SpecAvailable(w) == ~isProcessing[w] /\ processingQueue[w] < 5

\* Two characters are the same letter, whatever their case.
SameLetter(a, b) ==
    a = b \/ \E n \in 1..26 : {a, b} = {UpperChars[n], LowerChars[n]}

\* k occurs in s as a substring, case-insensitively.
ContainsIgnoringCase(s, k) ==
    \E i \in 1..Len(s) :
        /\ i + Len(k) - 1 <= Len(s)
        /\ \A j \in 1..Len(k) : SameLetter(s[i + j - 1], k[j])

\* The spec's keyword/status heuristic (4.4, priority derivation).
HeuristicPriority(c, status) ==
    LET keywords ==
            { <<"b","l","o","c","k","e","d">>, <<"c","r","i","t","i","c","a","l">>,
              <<"u","r","g","e","n","t">>, <<"h","e","l","p">>,
              <<"e","r","r","o","r">>, <<"b","r","o","k","e","n">> }
    IN  IF \E k \in keywords : ContainsIgnoringCase(c, k) THEN 1
        ELSE IF status = "blocked" THEN 2
        ELSE 3

\* C1: no worker ever has more than one processUserMessage call in flight.
\* The code violates it: with both workers busy getAvailableProcessor still
\* returns processor2 and the caller starts a second call on it.
C1_AtMostOneInFlight == \A w \in Workers : InFlight(w) <= 1

\* C2: a busy worker is never the one selected in a state where the other
\* worker is available.
C2_BusyNotSelectedWhileOtherAvailable ==
    selected # 0 => ~(isProcessing[selected] /\ SpecAvailable(3 - selected))

C2_Witness ==
    /\ selected = 1
    /\ isProcessing[2]
    /\ SpecAvailable(1)
    /\ processingQueue[2] < processingQueue[1]

EntriesOf(m) == {i \in DOMAIN messageQueue : messageQueue[i].item = m}

\* C5: a message whose immediate path threw is in the shared queue exactly
\* once, with the priority of the keyword/status heuristic, from the return
\* of handleIncomingMessage until the drain loop dequeues it; no other
\* message is in the queue, and each fallback enqueued once.
C5_FallbackQueuedOnce ==
    /\ \A m \in Msgs :
          IF pc[m] = "queued"
          THEN /\ Cardinality(EntriesOf(m)) = 1
               /\ \A i \in EntriesOf(m) :
                     messageQueue[i].priority =
                         HeuristicPriority(content[m], userStatus[m])
          ELSE EntriesOf(m) = {}
    /\ Len(messageQueue) = Cardinality({m \in Msgs : pc[m] = "queued"})
    /\ sequence = Cardinality({m \in Msgs : pc[m] = "queued" \/ viaQueue[m]})

C5_Witness ==
    \E m, n \in Msgs :
        /\ pc[m] = "queued" /\ content[m] = <<"H","E","L","P">>
        /\ pc[n] = "queued" /\ content[n] = <<"o","k">>
        /\ userStatus[n] = "blocked"

\* C6: a call of handleIncomingMessage never rejects. The code violates it:
\* the three lookups are awaited before the try block.
C6_CallNeverRejects == \A m \in Msgs : pc[m] # "rejected"

\* C7, as what it requires of a message whose handling has ended: it was
\* handed to handleProcessedMessage, or an error record was stored and an
\* error response emitted. The code violates it: handleProcessingError's
\* write may throw, and no response is emitted without a socket.
C7_EndedMeansDeliveredOrErrorReported ==
    \A m \in Msgs :
        pc[m] \in {"replied", "delivered", "errored", "lost"}
            => \/ handed[m] >= 1
               \/ errorRecords[m] >= 1 /\ errorResponses[m] >= 1

\* C8: a step that takes a message off the queue (a drain tick) takes exactly
\* one, and the worker selected for it is available at that moment. The code
\* violates the second part: with both workers busy the tick submits to
\* processor2.
C8_TickSubmitsOneToAvailableWorker ==
    [][Len(messageQueue') < Len(messageQueue)
           => /\ Len(messageQueue') = Len(messageQueue) - 1
              /\ SpecAvailable(getAvailableProcessor)]_vars

\* C9: the computed fallback priority is 1 when the content contains one of
\* the six keywords case-insensitively, else 2 when the status is 'blocked',
\* else 3; it is always in {1,2,3}.
C9_PriorityHeuristic ==
    prioResult # 0 =>
        /\ prioResult \in {1, 2, 3}
        /\ prioResult = HeuristicPriority(prioContent, prioStatus)

C9_Witness ==
    /\ prioResult = 1
    /\ prioStatus = "blocked"
    /\ prioContent = <<"u","n","H","E","L","P","f","u","l">>

\* C10: a call of initialize() made when an earlier call has completed
\* successfully (initialized is set) returns at once and changes neither the
\* registry, the initialized flag, the core services nor the monitors, and
\* constructs no agent.
C10_SecondInitializeIsNoOp ==
    [][\A c \in Callers :
          (mgrPc[c] = "idle" /\ mgrPc'[c] # "idle" /\ initialized)
              => /\ mgrPc'[c] = "returned"
                 /\ UNCHANGED <<agents, initialized, coreInitialized,
                                constructed, monitorStarts, trackingStarts>>]_vars

C10_Witness ==
    \E c, d \in Callers :
        /\ mgrPc[c] = "done"
        /\ mgrPc[d] = "returned"
        /\ \A a \in StaticAgents : constructed[a] = 1 /\ a \in agents
        /\ monitorStarts = 1

\* The core services, in the order initialize() awaits them.
CoreServices == <<"messageRouter", "healthMonitor", "tokenManager">>

\* The registry holds a user compiler.
SomeUserCompiler == \E u \in Users : UserCompilerId(u) \in agents

\* Nothing of a later step of initialize() is in place unless every earlier
\* step is: the core services in order, then the four agents constructed
\* before the user listing in order, then the user compilers, then the three
\* agents constructed after them in order.
InDependencyOrder ==
    /\ \A i \in 2..Len(CoreServices) :
          CoreServices[i] \in coreInitialized
              => CoreServices[i - 1] \in coreInitialized
    /\ agents # {} => \A i \in 1..Len(CoreServices) :
                          CoreServices[i] \in coreInitialized
    /\ \A i \in 2..Len(AgentsBeforeUsers) :
          AgentsBeforeUsers[i] \in agents => AgentsBeforeUsers[i - 1] \in agents
    /\ (SomeUserCompiler \/ \E i \in 1..Len(AgentsAfterUsers) :
                                AgentsAfterUsers[i] \in agents)
          => \A i \in 1..Len(AgentsBeforeUsers) : AgentsBeforeUsers[i] \in agents
    /\ (\E i \in 1..Len(AgentsAfterUsers) : AgentsAfterUsers[i] \in agents)
          => \A u \in dbUsers : UserCompilerId(u) \in agents
    /\ \A i \in 2..Len(AgentsAfterUsers) :
          AgentsAfterUsers[i] \in agents => AgentsAfterUsers[i - 1] \in agents

\* Caller c's initialize() has failed and no other call has been made.
FailedAlone(c) ==
    /\ mgrPc[c] = "failed"
    /\ \A d \in Callers \ {c} : mgrPc[d] = "idle"

\* C11: the step in which a call of initialize() fails starts neither
\* monitoring nor token tracking and leaves the initialized flag alone; the
\* failed call takes no further step; and when it is the only call made, the
\* flag is false, no monitor was started, the last agent was not registered
\* and nothing of a step after the failed one is in place.
C11_FailureAbortsInitialization ==
    [][\A c \in Callers :
          /\ (mgrPc[c] # "failed" /\ mgrPc'[c] = "failed")
                => UNCHANGED <<initialized, monitorStarts, trackingStarts,
                               monitoring>>
          /\ mgrPc[c] = "failed" => mgrPc'[c] = "failed"
          /\ FailedAlone(c)' =>
                (/\ ~initialized' /\ monitorStarts' = 0 /\ trackingStarts' = 0
                 /\ ~monitoring'
                 /\ "communication_hub" \notin agents'
                 /\ InDependencyOrder')]_vars

C11_Witness ==
    \E c \in Callers :
        /\ FailedAlone(c)
        /\ "decision_engine" \in agents
        /\ "code_extractor" \notin agents
        /\ dbUsers # {}

RemoveUserDeletes(c) ==
    /\ lifeKind[c] = "removeUser"
    /\ lifePc[c] # "update" /\ lifePc'[c] = "update"
    /\ UserCompilerId(lifeUser[c]) \in agents
    /\ UserCompilerId(lifeUser[c]) \notin agents'

\* Call c ends in this step with outcome r.
LifeCallEnds(c, r) == lifePc[c] # r /\ lifePc'[c] = r

\* C13: when removeUser takes the user's compiler out of the registry, the
\* persisted status of the user is already 'inactive'. The code violates it:
\* agents.delete runs before the update of the user's document is awaited.
C13_StatusPersistedBeforeDelete ==
    [][\A c \in LifeCalls :
          RemoveUserDeletes(c) => dbStatus'[lifeUser[c]] = "inactive"]_vars

\* C14: removeUser deletes the registry entry only after it has called the
\* compiler's cleanup method, when it has one, and when removeUser returns
\* normally the registry holds no user_compiler_<id>. The code violates the
\* second part: the entry is deleted before the last await of removeUser, and
\* an addUser of the same id registers a compiler again before it returns.
C14_CleanupThenDeleteThenAbsent ==
    [][\A c \in LifeCalls :
          /\ (RemoveUserDeletes(c)
                 /\ UserCompilerId(lifeUser[c]) \in hooks) => cleaned[c] = 1
          /\ (lifeKind[c] = "removeUser" /\ LifeCallEnds(c, "done"))
                => UserCompilerId(lifeUser[c]) \notin agents']_vars

\* C15: an addUser call that has completed has set one compiler in the
\* registry and handed one USER_REGISTERED envelope to the router; the
\* envelope is handed over in a state where user_compiler_<id> is
\* registered; a call whose write of the user's document failed has
\* registered no agent and sent no envelope.
C15_AddUserRegistersThenNotifiesOnce ==
    [][\A c \in LifeCalls :
          lifeKind[c] = "addUser" =>
            /\ LifeCallEnds(c, "done")
                  => registered'[c] = 1 /\ notified'[c] = 1
            /\ LifeCallEnds(c, "setFailed")
                  => /\ registered'[c] = 0 /\ notified'[c] = 0
                     /\ UNCHANGED <<agents, dbUsers, dbStatus>>
            /\ notified'[c] > notified[c]
                  => /\ UserCompilerId(lifeUser[c]) \in agents'
                     /\ registered'[c] = 1]_vars

C15_Witness ==
    \E c, d \in LifeCalls :
        /\ lifeKind[c] = "addUser" /\ lifePc[c] = "done"
        /\ lifeUser[c] \notin {u \in Users : dbStatus[u] = "absent"}
        /\ registered[c] = 1 /\ notified[c] = 1
        /\ lifeKind[d] = "addUser" /\ lifePc[d] = "setFailed"
        /\ UserCompilerId(lifeUser[d]) \notin agents

\* C16: when a call of shutdown() ends, by returning or by rethrowing the
\* error of a cleanup method, the monitors are stopped, the registry is empty
\* and initialized is false. The code violates it: a cleanup method that
\* throws ends shutdown before agents.clear() and the reset of the flag.
C16_ShutdownLeavesNothing ==
    [][\A c \in LifeCalls :
          (lifeKind'[c] = "shutdown"
             /\ (LifeCallEnds(c, "done") \/ LifeCallEnds(c, "failed")))
                => agents' = {} /\ ~initialized' /\ ~monitoring']_vars

\* The awaited step whose throw made the current call of processUserMessage
\* reject, "" when it has not rejected.
RejectedAt == IF wPc = "rejected" THEN wFailedAt[Len(wFailedAt)] ELSE ""

\* processUserMessage has returned its ProcessedMessage.
Returned == wPc \in {"returned", "handled"}

\* C17: for a parsed response whose analysis or classification object is
\* missing, or lacks intent or urgency, processUserMessage does not fail on
\* that account, and the result it returns has intent 'help' in place of a
\* missing intent and urgency 'medium' in place of a missing urgency. The
\* code violates it: reportToDecisionEngine reads classification.urgency and
\* analysis.messageId of the missing object and throws a TypeError.
C17_DefaultsForMissingFields ==
    response.content = "json" =>
        /\ RejectedAt # "typeError"
        /\ (Returned /\ response.analysis.intent = undefined)
              => wResult.intent = "help"
        /\ (Returned /\ response.classification.urgency = undefined)
              => wResult.urgency = "medium"

\* C18: when the classification call returned unusable output (no content,
\* no delimiters, unparseable JSON), the worker goes on with the default
\* result (intent 'help', urgency 'medium', action 'provide_help',
\* confidence 0.5) and processUserMessage does not reject with an error of
\* that call. The code violates it for a response without content, whose
\* error is thrown before the try block of analyzeAndClassifyMessage.
C18_UnusableOutputYieldsDefault ==
    response.content \in {"empty", "noDelimiters", "unparseable"} =>
        /\ RejectedAt # "emptyContent"
        /\ wAnalysis.intent = "help"
        /\ wClassification.urgency = "medium"
        /\ wClassification.action = "provide_help"
        /\ wClassification.confidence = "0.5"

\* C19: a throw of the write of the processed message does not make
\* processUserMessage reject, and the envelope to the decision engine is
\* published once for the message. The code violates it: the write is
\* awaited without a catch, processUserMessage rejects, the hub queues the
\* message and the drain loop has it processed and published again.
C19_StoreFailureOnlyLogged ==
    (\E i \in DOMAIN wFailedAt : wFailedAt[i] = "store") =>
        /\ RejectedAt # "store"
        /\ Len(wEnvelopes) = 1

\* The spec's routing weight table (6): critical=1, high=2, medium=3, low=4,
\* unknown or absent 3.
RoutingWeight(urgency) ==
    IF urgency = "critical" THEN 1
    ELSE IF urgency = "high" THEN 2
    ELSE IF urgency = "low" THEN 4
    ELSE 3

\* C20: the priority of every envelope the worker and the hub build is the
\* number the routing weight table gives for the urgency, in 1..4, and
\* mapUrgencyToPriority and determinePriority agree on every urgency. The
\* code violates the first part: for an urgency that names a property of
\* Object.prototype ('constructor', 'toString') the lookup returns that
\* property, which is not a number.
C20_UrgencyToPriorityTable ==
    /\ \A i \in DOMAIN wEnvelopes :
          /\ wEnvelopes[i].priority.type = "number"
          /\ wEnvelopes[i].priority.value = RoutingWeight(wEnvelopes[i].urgency)
          /\ wEnvelopes[i].priority.value \in 1..4
    /\ \A i \in DOMAIN hubPriority :
          /\ hubPriority[i].priority.type = "number"
          /\ hubPriority[i].priority.value = RoutingWeight(hubPriority[i].urgency)
          /\ hubPriority[i].priority.value \in 1..4
    /\ \A u \in Urgencies : mapUrgencyToPriority(u) = determinePriority(u)

\* C26: the busy flag of a worker is true exactly when a call of
\* processUserMessage on it has started and not settled, so a worker that is
\* processing never reports isAvailable(). The code violates it: two calls
\* overlap on processor2 (C1) and the finally block of the first to settle
\* clears the flag under the other.
C26_FlagTracksInFlight ==
    \A w \in Workers :
        /\ isProcessing[w] <=> InFlight(w) >= 1
        /\ isAvailable(w) => InFlight(w) = 0

\* C27: a message is in the queue at most once and only between its first
\* and its second submission, it is enqueued once in total and submitted at
\* most twice, and a message whose drain-path processing failed has exactly
\* one error record and is not queued. The code violates the last part: the
\* write of the error record may throw (C7), and no record is stored.
C27_NoRetryLoop ==
    /\ \A m \in Msgs :
          /\ Cardinality(EntriesOf(m)) <= 1
          /\ submitted[m] <= 2
          /\ EntriesOf(m) # {} => submitted[m] = 1
          /\ pc[m] \in {"errored", "lost"}
                => /\ errorRecords[m] = 1
                   /\ submitted[m] = 2
                   /\ EntriesOf(m) = {}
    /\ sequence = Cardinality({m \in Msgs : submitted[m] = 2 \/ pc[m] = "queued"})

\* Message m is submitted to a worker in this step.
Submits(m) == pc[m] # "processing" /\ pc'[m] = "processing"

\* Calls of processUserMessage in flight on both workers.
TotalInFlight == Cardinality({m \in Msgs : pc[m] = "processing"})

Before(a, b) ==
    \/ a.priority < b.priority
    \/ a.priority = b.priority /\ a.sequence <= b.sequence

\* The entries of a queue, or of a record of calls, as a set.
Entries(q) ==
    {[item |-> q[i].item, priority |-> q[i].priority,
      sequence |-> q[i].sequence] : i \in DOMAIN q}

\* Of two results of dequeue, the earlier one comes first in the order
\* whenever the later one was already in the queue at the earlier call.
DequeuedInOrder ==
    \A i, j \in DOMAIN dequeued :
        i < j /\ dequeued[j].sequence < dequeued[i].at
            => Before(dequeued[i], dequeued[j])

\* C21: every dequeue() on a non-empty queue returns an entry of the queue
\* that has the lowest priority value and, among those, the lowest sequence
\* number; so results come out in non-decreasing priority and FIFO within a
\* priority among entries that were in the queue together.
C21_DequeueLowestPriorityThenFifo ==
    [][/\ enqueuedItems' = enqueuedItems /\ ~isEmpty(messageQueue)
          => /\ lastDequeue' = "item"
             /\ Len(dequeued') = Len(dequeued) + 1
             /\ LET e == dequeued'[Len(dequeued')]
                IN  /\ [item |-> e.item, priority |-> e.priority,
                        sequence |-> e.sequence] \in Entries(messageQueue)
                    /\ \A x \in Entries(messageQueue) : Before(e, x)
       /\ DequeuedInOrder']_vars

\* Priorities 3, 1, 2, 1 in this order (A@3, B@1, C@2, B2@1 with A, B, A, B
\* for the items): the second, the fourth, the third, the first come out.
C21_Witness ==
    /\ enqueuedItems =
          <<[item |-> "A", priority |-> 3, sequence |-> 0],
            [item |-> "B", priority |-> 1, sequence |-> 1],
            [item |-> "A", priority |-> 2, sequence |-> 2],
            [item |-> "B", priority |-> 1, sequence |-> 3]>>
    /\ [i \in DOMAIN dequeued |-> dequeued[i].sequence] = <<1, 3, 2, 0>>
    /\ [i \in DOMAIN dequeued |-> dequeued[i].item] = <<"B", "B", "A", "A">>
    /\ \A i \in DOMAIN dequeued : dequeued[i].at = 4

\* C22: the entries enqueued are the entries returned by dequeue plus the
\* entries still in the queue, each once (so are the items, counted with
\* their multiplicity), and size() is the number of entries not yet returned.
C22_NothingDroppedNothingDuplicated ==
    /\ Entries(enqueuedItems) = Entries(dequeued) \cup Entries(messageQueue)
    /\ Entries(dequeued) \cap Entries(messageQueue) = {}
    /\ Cardinality(Entries(dequeued)) = Len(dequeued)
    /\ Cardinality(Entries(messageQueue)) = Len(messageQueue)
    /\ \A item \in QItems :
          Cardinality({i \in DOMAIN enqueuedItems :
                          enqueuedItems[i].item = item})
            = Cardinality({i \in DOMAIN dequeued : dequeued[i].item = item})
              + Cardinality({i \in DOMAIN messageQueue :
                                messageQueue[i].item = item})
    /\ size(messageQueue) = Len(enqueuedItems) - Len(dequeued)

\* The same item enqueued three times: one copy returned, two in the queue.
C22_Witness ==
    /\ Len(enqueuedItems) = 4
    /\ Len(dequeued) = 2
    /\ size(messageQueue) = 2
    /\ \E i \in DOMAIN dequeued :
          \A k \in DOMAIN messageQueue :
              messageQueue[k].item = dequeued[i].item

\* C23: dequeue() on an empty queue returns an empty result, raises no
\* error, and leaves the contents and the next sequence number unchanged.
C23_DequeueOnEmpty ==
    [][enqueuedItems' = enqueuedItems /\ isEmpty(messageQueue)
          => /\ lastDequeue' = "empty"
             /\ messageQueue' = messageQueue
             /\ sequence' = sequence
             /\ dequeued' = dequeued]_vars

\* A queue that was filled and drained, then asked once more.
C23_Witness ==
    /\ lastDequeue = "empty"
    /\ isEmpty(messageQueue)
    /\ Len(dequeued) = 2
    /\ sequence = 2

\* sendMessage settles in this step.
Settles == sendPc = "dispatching" /\ sendPc' # "dispatching"

\* Number of invocations of handler id recorded in inv.
TimesInvoked(inv, id) == Cardinality({i \in DOMAIN inv : inv[i].id = id})

\* C24: when sendMessage settles, every handler registered for the type of
\* the envelope has run exactly once, whether or not a handler registered
\* before it threw, and sendMessage resolves.
C24_HandlerIsolation ==
    [][Settles =>
          /\ sendPc' = "resolved"
          /\ \A k \in DOMAIN handlers :
                handlers[k].type = envelope.type
                    => TimesInvoked(invoked', handlers[k].id) = 1]_vars

\* Two handlers for one type, the first throws, the second has run.
C24_Witness ==
    /\ sendPc = "resolved"
    /\ Len(invoked) = 2
    /\ invoked[1].threw
    /\ ~invoked[2].threw

\* C25: when sendMessage settles, the handlers that have run are the handlers
\* registered for envelope.type, each once, in registration order, and they
\* are the same for every target, source and priority of the envelope.
C25_DeliveryByTypeInRegistrationOrder ==
    [][Settles =>
          /\ [i \in DOMAIN invoked' |-> invoked'[i].id]
                = [i \in DOMAIN handlersFor(handlers, envelope.type) |->
                      handlersFor(handlers, envelope.type)[i].id]
          /\ \A i, j \in DOMAIN invoked' :
                i < j => invoked'[i].id < invoked'[j].id
          /\ \A k \in DOMAIN handlers :
                handlers[k].type # envelope.type
                    => TimesInvoked(invoked', handlers[k].id) = 0
          /\ \A env \in Envelopes :
                env.type = envelope.type
                    => dispatch(handlers, env).invoked = invoked']_vars

\* Handlers 1 and 3 are registered for the type sent, by an agent that is not
\* the target of the envelope; handler 2 is registered for the other type.
C25_Witness ==
    /\ sendPc = "resolved"
    /\ Len(handlers) = 3
    /\ handlers[2].type # envelope.type
    /\ handlers[1].agent # envelope.target
    /\ envelope.priority = 4
    /\ [i \in DOMAIN invoked |-> invoked[i].id] = <<1, 3>>

\* The USER_COMMUNICATION envelope built in attempt a has been delivered:
\* the sendMessage awaited by reportToDecisionEngine has resolved.
PublishedIn(a) ==
    /\ \E i \in DOMAIN wEnvelopes : wEnvelopes[i].attempt = a
    /\ ~(wAttempt = a /\ wPc = "report")
    /\ ~(Len(wFailedAt) >= a /\ wFailedAt[a] = "send")

\* C28: for a message, the worker publishes at most one USER_COMMUNICATION
\* envelope and stores at most one processed-message record, over the
\* immediate path and the drain path together. The code violates it: a
\* message whose immediate path fails after the worker has published (the
\* store throws, or handleProcessedMessage throws) is drained and processed
\* in full a second time.
C28_WorkerEffectsAtMostOnce ==
    /\ Cardinality({a \in {1, 2} : PublishedIn(a)}) <= 1
    /\ wStored <= 1

\* C31: the queue orders only the messages waiting in it. A message whose
\* lookups return is submitted to a worker at once, whatever the queue
\* holds, and the queue is left as it is; a message is in the queue only
\* after its immediate attempt has failed; the drain loop submits the entry
\* dequeue() returns. So a later message can be served while an earlier one
\* of higher priority waits (the witness).
C31_QueueOrdersOnlyWaiting ==
    [][\A m \in Msgs :
          /\ pc[m] = "lookup" /\ pc'[m] # "lookup" /\ pc'[m] # "rejected"
                => /\ Submits(m)
                   /\ ~viaQueue'[m]
                   /\ messageQueue' = messageQueue
          /\ Submits(m) /\ viaQueue'[m]
                => /\ ~isEmpty(messageQueue)
                   /\ m = dequeueItem(messageQueue)
          /\ EntriesOf(m)' # {} => submitted'[m] = 1]_vars

\* Message 1 waits in the queue with priority 1; message 2, which arrived
\* later and whose heuristic priority is 3, was submitted to a worker on the
\* immediate path while message 1 was waiting, and is being processed.
C31_Witness ==
    /\ pc[1] = "queued"
    /\ \E i \in EntriesOf(1) : messageQueue[i].priority = 1
    /\ pc[2] = "processing" /\ ~viaQueue[2]
    /\ servedAhead[2]
    /\ calculateMessagePriority(content[2], userStatus[2]) = 3

\* The kinds of the events of handleProcessedMessage so far, in order.
hpKinds == [i \in DOMAIN hpEvents |-> hpEvents[i].kind]

C33_OverlappingInitializeConstructsOnce ==
    /\ \A a \in StaticAgents : constructed[a] <= 1
    /\ monitorStarts <= 1
    /\ trackingStarts <= 1

\* C35: when a call of initialize() has thrown and no call is in progress or
\* has succeeded, the registry is empty (getAgent returns nothing for every
\* id). The code violates it: the catch block of initialize() only logs and
\* rethrows, and the agents registered before the failure stay registered.
C35_FailedInitializeLeavesNoAgent ==
    (/\ \E c \in Callers : mgrPc[c] = "failed"
     /\ \A c \in Callers : mgrPc[c] \in {"idle", "failed"})
        => agents = {}

\* C34: whenever initialized is true, the seven static agents are in the
\* registry. The code violates it: shutdown() may run while a call of
\* initialize() is awaiting, and clears the registry under it.
C34_InitializedImpliesStaticAgents ==
    initialized => StaticAgents \subseteq agents

\* A call of shutdown() has completed.
ShutdownCompleted ==
    \E c \in LifeCalls : lifeKind[c] = "shutdown" /\ lifePc[c] = "done"

\* C36: once shutdown() has completed, no message is dequeued from the
\* priority queue and none is submitted to a worker by the drain loop. The
\* code violates it: the setInterval of startQueueProcessor is never cleared
\* and the hub has no cleanup method.
C36_NoDrainAfterShutdown ==
    [][ShutdownCompleted =>
          /\ Len(messageQueue') >= Len(messageQueue)
          /\ \A m \in Msgs : ~(Submits(m) /\ viaQueue'[m])]_vars

\* C37: when a call of addUser(u) and a call of removeUser(u) have both
\* completed, either user_compiler_u is registered and the persisted status
\* is the one addUser wrote, or it is not registered and the persisted
\* status is inactive. The code violates it: the steps of the two calls
\* interleave at their awaits, and the compiler ends registered for a user
\* whose persisted status is inactive.
C37_AddRemoveSerializable ==
    \A c, d \in LifeCalls :
        \A u \in Users :
            (/\ lifeKind[c] = "addUser" /\ lifeUser[c] = u
             /\ lifeKind[d] = "removeUser" /\ lifeUser[d] = u
             /\ lifePc[c] = "done" /\ lifePc[d] = "done")
                => \/ UserCompilerId(u) \in agents /\ dbStatus[u] = "active"
                   \/ UserCompilerId(u) \notin agents
                         /\ dbStatus[u] = "inactive"

====
